---- MODULE Spec2Model ----
(***************************************************************************)
(* A model of mcpui-go: the action Router (handler.go) with its            *)
(* sync.RWMutex, the typed handler adapters (handler.go), the action       *)
(* payload accessors (action.go), the response builders (response.go),     *)
(* the content codec (content.go) and the resource contents.               *)
(***************************************************************************)
EXTENDS Integers, Sequences, FiniteSets, TLC

VARIABLES
    typeHandlers,      \* Router.typeHandlers: map[string]UIActionHandler
    resourceHandlers,  \* Router.resourceHandlers: map[string]UIActionHandler
    defaultHandler,    \* Router.defaultHandler (Nil when unset)
    mu,                \* Router.mu: the sync.RWMutex
    stack,             \* per thread: the call stack of Router calls in progress
    result,            \* per thread: how its last top-level Router call ended
    ncalls,            \* number of top-level Router calls started so far
    lastReg,           \* history: per key, the handler of the last completed registration
    scenario,          \* which inputs the callers draw from (fixed by Init)
    adapter,           \* adapter scenario: the call of a wrapped handler
    response,          \* adapter scenario: the UIResponse built from a result
    content            \* codec scenario: the call of the content, resource, payload or response code

routerVars == <<typeHandlers, resourceHandlers, defaultHandler, mu, stack, result,
                ncalls, lastReg, scenario>>
adapterVars == <<adapter, response>>
contentVars == <<content>>
vars == <<typeHandlers, resourceHandlers, defaultHandler, mu, stack, result,
          ncalls, lastReg, scenario, adapter, response, content>>

(***************************************************************************)
(* Bounds of the model.                                                    *)
(***************************************************************************)
NThreads == 2        \* threads calling the Router in the concurrent scenario
MaxCalls == 4        \* top-level Router calls in the sequential scenario
MaxConcCalls == 3    \* top-level Router calls in the concurrent scenario
MaxDepth == 2        \* depth of the call stack (Dispatch -> handler -> Router call)

Threads == 1..NThreads

(***************************************************************************)
(* Values.                                                                 *)
(***************************************************************************)
Nil == "nil"

ActionTypeTool == "tool"
ActionTypeIntent == "intent"
ActionTypePrompt == "prompt"
ActionTypeNotify == "notify"
ActionTypeLink == "link"
ActionTypeUISize == "ui-size-change"

\* Resource URIs are strings; a string is modelled as the sequence of its
\* pieces, so that "is a prefix of" differs from "is equal to".
UriEmpty == <<>>
UriTe == <<"ui://", "te">>
UriTest == <<"ui://", "te", "st">>
UriOther == <<"ui://", "other">>

IsPrefix(s, t) == Len(s) <= Len(t) /\ SubSeq(t, 1, Len(s)) = s

\* Handler functions a caller may register.
Handlers == {"h1", "h2"}

\* *UIAction: nil, or an action with a type tag.
NoAction == [nil |-> TRUE, Type |-> ""]
Action(tag) == [nil |-> FALSE, Type |-> tag]

\* Session is an `any` the Router's callers put in a request; nil when unset.
UIActionRequest(action, uri, session) ==
    [Action |-> action, ResourceURI |-> uri, Session |-> session]

\* context.Context values: one that is live and one already cancelled.
Background == "context.Background()"
Cancelled == "cancelled context"

\* error: nil, or an error with its text (what Error() returns), a sequence
\* of the pieces fmt.Errorf puts together.
NoError == [nil |-> TRUE, text |-> <<>>]
Error(text) == [nil |-> FALSE, text |-> text]

\* *UIActionResult: nil, or a result with Response and Error fields.
NilResult == [nil |-> TRUE, Response |-> Nil, Error |-> NoError]
UIActionResult(resp, err) == [nil |-> FALSE, Response |-> resp, Error |-> err]

(***************************************************************************)
(* The inputs.  Three scenarios bound the model: in "sequential" one thread *)
(* calls the Router with every kind of key and request; in "concurrent"    *)
(* every thread calls it, with one key per registry; in "passthrough" one  *)
(* thread calls it, with one key per registry, with and without a session  *)
(* value in the request and with a live or a cancelled context.            *)
(***************************************************************************)
Scenarios == {"sequential", "concurrent", "passthrough"}
Sequential == scenario = "sequential"
PassThrough == scenario = "passthrough"

\* The threads that call the Router, and how many calls they make.
Callers == IF scenario = "concurrent" THEN Threads ELSE {1}
CallBudget == IF Sequential THEN MaxCalls ELSE MaxConcCalls

\* Keys used by the registration calls.
RegTypes == {ActionTypeTool}
RegURIs == IF Sequential THEN {UriEmpty, UriTe, UriTest} ELSE {UriTest}

\* The requests dispatched.
ReqActions ==
    IF Sequential THEN {NoAction, Action(ActionTypeTool), Action(ActionTypePrompt)}
    ELSE {Action(ActionTypeTool)}
ReqURIs == IF Sequential THEN {UriEmpty, UriTe, UriTest, UriOther} ELSE {UriTest}
ReqSessions == IF PassThrough THEN {Nil, "session-1"} ELSE {Nil}
ReqContexts == IF PassThrough THEN {Background, Cancelled} ELSE {Background}
Requests == {UIActionRequest(a, u, x) : a \in ReqActions, u \in ReqURIs, x \in ReqSessions}

\* What a handler (an external collaborator) may return: (result, error).
HandlerReturns ==
    IF Sequential
    THEN { <<UIActionResult("data", NoError), NoError>>,
           <<UIActionResult(Nil, Error(<<"business failure">>)), NoError>>,
           <<NilResult, Error(<<"transport failure">>)>>,
           <<UIActionResult("data", NoError), Error(<<"transport failure">>)>> }
    ELSE { <<UIActionResult("data", NoError), NoError>> }

\* fmt.Errorf("no handler for action type %q from resource %q", ...), line 112.
ErrNoHandler(req) ==
    Error(<<"no handler for action type ", req.Action.Type, " from resource ">>
          \o req.ResourceURI)

(***************************************************************************)
(* Go maps.                                                                *)
(***************************************************************************)
EmptyMap == <<>>

MapPutKeepOld(m, k, h) ==
    IF k \in DOMAIN m THEN m
    ELSE [x \in DOMAIN m \cup {k} |-> IF x = k THEN h ELSE m[x]]

MapPutOnly(m, k, h) == [x \in {k} |-> h]

\* m[k] = h
MapPut(m, k, h) == [x \in DOMAIN m \cup {k} |-> IF x = k THEN h ELSE m[x]]

(***************************************************************************)
(* The call stack of a thread.  A frame is a Router.Dispatch call or a     *)
(* registration call (HandleType, HandleResource, SetDefault).             *)
(***************************************************************************)
NoSel == [tier |-> "none", h |-> Nil]

\* Dispatch(ctx, req); calls: the handler calls this Dispatch call has made.
DispatchFrame(ctx, req) ==
    [kind |-> "Dispatch", pc |-> "rlock", ctx |-> ctx, req |-> req, sel |-> NoSel,
     calls |-> <<>>, op |-> "Dispatch", tag |-> "", uri |-> UriEmpty, h |-> Nil]

RegFrame(op, tag, uri, h) ==
    [kind |-> "Register", pc |-> "lock", ctx |-> Background,
     req |-> UIActionRequest(NoAction, UriEmpty, Nil),
     sel |-> NoSel, calls |-> <<>>, op |-> op, tag |-> tag, uri |-> uri, h |-> h]

\* handler(ctx, req), lines 96, 103, 109: the handler called and what it is
\* called with.
HandlerCallNoSession(h, ctx, req) ==
    [h |-> h, ctx |-> ctx, req |-> [req EXCEPT !.Session = Nil]]
HandlerCall(h, ctx, req) == [h |-> h, ctx |-> ctx, req |-> req]

Depth(t) == Len(stack[t])
Idle(t) == Depth(t) = 0
Top(t) == stack[t][Depth(t)]
Pop(s) == SubSeq(s, 1, Len(s) - 1)
SetTop(s, f) == [s EXCEPT ![Len(s)] = f]
InFrame(t, kind, pc) == ~Idle(t) /\ Top(t).kind = kind /\ Top(t).pc = pc

\* The outcome of a top-level call: what Dispatch returned (res, err) and,
\* as history, what the handler it invoked returned (hres, herr).
Outcome(kind, res, err, hres, herr) ==
    [kind |-> kind, res |-> res, err |-> err, hres |-> hres, herr |-> herr]
NoResult == Outcome("none", NilResult, NoError, NilResult, NoError)

(***************************************************************************)
(* sync.RWMutex.  writer: the thread that called Lock and has announced    *)
(* itself (it holds the lock once no reader is active); readers: the read  *)
(* locks each thread holds.  A thread blocked in RLock is at pc "rblocked".*)
(***************************************************************************)
RECURSIVE SumOver(_, _)
SumOver(f, S) ==
    IF S = {} THEN 0
    ELSE LET x == CHOOSE y \in S : TRUE IN f[x] + SumOver(f, S \ {x})

ActiveReaders == SumOver(mu.readers, Threads)
RBlocked(t) == InFrame(t, "Dispatch", "rblocked")


(***************************************************************************)
(* Router.Dispatch, lines 94-112: the handler the lookup selects.          *)
(* tier "panic": no handler matched and req.Action is nil, so building the *)
(* error message dereferences a nil pointer (req.Action.Type).             *)
(***************************************************************************)
DispatchSelectPrefix(rh, th, dh, req) ==
    IF req.ResourceURI # UriEmpty /\ \E k \in DOMAIN rh : IsPrefix(k, req.ResourceURI)
    THEN [tier |-> "resource",
          h |-> rh[CHOOSE k \in DOMAIN rh : IsPrefix(k, req.ResourceURI)]]
    ELSE IF ~req.Action.nil /\ req.Action.Type \in DOMAIN th
    THEN [tier |-> "type", h |-> th[req.Action.Type]]
    ELSE IF dh # Nil
    THEN [tier |-> "default", h |-> dh]
    ELSE IF req.Action.nil
    THEN [tier |-> "panic", h |-> Nil]
    ELSE NoSel

DispatchSelect(rh, th, dh, req) ==
    IF req.ResourceURI # UriEmpty /\ req.ResourceURI \in DOMAIN rh
    THEN [tier |-> "resource", h |-> rh[req.ResourceURI]]
    ELSE IF ~req.Action.nil /\ req.Action.Type \in DOMAIN th
    THEN [tier |-> "type", h |-> th[req.Action.Type]]
    ELSE IF dh # Nil
    THEN [tier |-> "default", h |-> dh]
    ELSE IF req.Action.nil
    THEN [tier |-> "panic", h |-> Nil]
    ELSE NoSel

\* Router.Dispatch, lines 96/103/109: "return handler(ctx, req)".
DispatchReturnFolded(hres, herr) ==
    IF ~herr.nil THEN <<UIActionResult(Nil, herr), NoError>> ELSE <<hres, herr>>

DispatchReturn(hres, herr) == <<hres, herr>>

(***************************************************************************)
(* The state after NewRouter().                                            *)
(***************************************************************************)
RouterInit ==
    /\ typeHandlers = EmptyMap
    /\ resourceHandlers = EmptyMap
    /\ defaultHandler = Nil
    /\ mu = [writer |-> 0, readers |-> [t \in Threads |-> 0]]
    /\ stack = [t \in Threads |-> <<>>]
    /\ result = [t \in Threads |-> NoResult]
    /\ ncalls = 0
    /\ scenario \in Scenarios
    /\ lastReg = [type |-> <<>>, resource |-> <<>>, default |-> [h |-> Nil, old |-> Nil]]

(***************************************************************************)
(* A thread calls the Router.                                              *)
(***************************************************************************)
Push(t, f) == stack' = [stack EXCEPT ![t] = Append(@, f)]

CallDispatch(t) ==
    /\ t \in Callers /\ Idle(t) /\ ncalls < CallBudget
    /\ \E ctx \in ReqContexts, req \in Requests : Push(t, DispatchFrame(ctx, req))
    /\ ncalls' = ncalls + 1
    /\ result' = [result EXCEPT ![t] = NoResult]
    /\ UNCHANGED <<typeHandlers, resourceHandlers, defaultHandler, mu, lastReg, scenario>>
    /\ UNCHANGED <<adapterVars, contentVars>>

CallHandleType(t) ==
    /\ t \in Callers /\ Idle(t) /\ ncalls < CallBudget
    /\ \E tag \in RegTypes, h \in Handlers :
          Push(t, RegFrame("HandleType", tag, UriEmpty, h))
    /\ ncalls' = ncalls + 1
    /\ result' = [result EXCEPT ![t] = NoResult]
    /\ UNCHANGED <<typeHandlers, resourceHandlers, defaultHandler, mu, lastReg, scenario>>
    /\ UNCHANGED <<adapterVars, contentVars>>

CallHandleResource(t) ==
    /\ t \in Callers /\ Idle(t) /\ ncalls < CallBudget
    /\ \E uri \in RegURIs, h \in Handlers :
          Push(t, RegFrame("HandleResource", "", uri, h))
    /\ ncalls' = ncalls + 1
    /\ result' = [result EXCEPT ![t] = NoResult]
    /\ UNCHANGED <<typeHandlers, resourceHandlers, defaultHandler, mu, lastReg, scenario>>
    /\ UNCHANGED <<adapterVars, contentVars>>

CallSetDefault(t) ==
    /\ t \in Callers /\ Idle(t) /\ ncalls < CallBudget
    /\ \E h \in Handlers : Push(t, RegFrame("SetDefault", "", UriEmpty, h))
    /\ ncalls' = ncalls + 1
    /\ result' = [result EXCEPT ![t] = NoResult]
    /\ UNCHANGED <<typeHandlers, resourceHandlers, defaultHandler, mu, lastReg, scenario>>
    /\ UNCHANGED <<adapterVars, contentVars>>

(***************************************************************************)
(* sync.RWMutex operations.                                                *)
(***************************************************************************)
\* RLock returns at once unless a writer has announced itself.
RLockGrantedExclusive(m, t) ==
    m.writer = 0 /\ \A u \in Threads \ {t} : m.readers[u] = 0

RLockGranted(m, t) == m.writer = 0

\* RUnlock by thread t.
RUnlock(m, t) == [m EXCEPT !.readers[t] = @ - 1]

\* Unlock by the writer: every reader blocked in RLock now holds a read lock.
Unlock(m) ==
    [writer |-> 0,
     readers |-> [u \in Threads |-> IF RBlocked(u) THEN m.readers[u] + 1
                                    ELSE m.readers[u]]]

\* Router.Dispatch line 90: r.mu.RLock().
RLock(t) ==
    /\ InFrame(t, "Dispatch", "rlock")
    /\ IF RLockGranted(mu, t)
       THEN /\ mu' = [mu EXCEPT !.readers[t] = @ + 1]
            /\ stack' = [stack EXCEPT ![t] = SetTop(@, [Top(t) EXCEPT !.pc = "lookup"])]
       ELSE /\ mu' = mu
            /\ stack' = [stack EXCEPT ![t] = SetTop(@, [Top(t) EXCEPT !.pc = "rblocked"])]
    /\ UNCHANGED <<typeHandlers, resourceHandlers, defaultHandler, result, ncalls, lastReg, scenario>>
    /\ UNCHANGED <<adapterVars, contentVars>>

(***************************************************************************)
(* Router.Dispatch, lines 93-113, with the read lock held.                 *)
(***************************************************************************)
Selected(t) == DispatchSelect(resourceHandlers, typeHandlers, defaultHandler, Top(t).req)

\* How a returning call leaves the thread: a nested call returns into the
\* handler that made it, a top-level call records its outcome.
Returned(t, out) ==
    /\ stack' = [stack EXCEPT ![t] = Pop(@)]
    /\ result' = IF Depth(t) = 1 THEN [result EXCEPT ![t] = out] ELSE result

\* A handler is found: it is called (lines 96, 103, 109).
DispatchInvoke(t) ==
    /\ InFrame(t, "Dispatch", "lookup")
    /\ Selected(t).tier \in {"resource", "type", "default"}
    /\ stack' = [stack EXCEPT ![t] =
                    SetTop(@, [Top(t) EXCEPT
                                  !.pc = "handler", !.sel = Selected(t),
                                  !.calls = Append(@, HandlerCall(Selected(t).h, Top(t).ctx,
                                                                  Top(t).req))])]
    /\ UNCHANGED <<typeHandlers, resourceHandlers, defaultHandler, mu, result, ncalls,
                   lastReg, scenario>>
    /\ UNCHANGED <<adapterVars, contentVars>>

\* No handler, line 112: return nil, fmt.Errorf("no handler ..."); the
\* deferred RUnlock runs.
DispatchNoHandler(t) ==
    /\ InFrame(t, "Dispatch", "lookup")
    /\ Selected(t).tier = "none"
    /\ mu' = RUnlock(mu, t)
    /\ Returned(t, Outcome("nohandler", NilResult, ErrNoHandler(Top(t).req),
                           NilResult, NoError))
    /\ UNCHANGED <<typeHandlers, resourceHandlers, defaultHandler, ncalls, lastReg, scenario>>
    /\ UNCHANGED <<adapterVars, contentVars>>

\* No handler and req.Action is nil, line 112: req.Action.Type panics.  The
\* panic unwinds the thread's stack; every deferred RUnlock on it runs.
DispatchPanic(t) ==
    /\ InFrame(t, "Dispatch", "lookup")
    /\ Selected(t).tier = "panic"
    /\ mu' = [mu EXCEPT !.readers[t] = 0]
    /\ stack' = [stack EXCEPT ![t] = <<>>]
    /\ result' = [result EXCEPT ![t] = Outcome("panic", NilResult, NoError, NilResult, NoError)]
    /\ UNCHANGED <<typeHandlers, resourceHandlers, defaultHandler, ncalls, lastReg, scenario>>
    /\ UNCHANGED <<adapterVars, contentVars>>

\* The handler returns; Dispatch returns what it returned; the deferred
\* RUnlock runs.
HandlerReturn(t) ==
    /\ InFrame(t, "Dispatch", "handler")
    /\ \E ret \in HandlerReturns :
          LET out == DispatchReturn(ret[1], ret[2]) IN
          Returned(t, Outcome("return", out[1], out[2], ret[1], ret[2]))
    /\ mu' = RUnlock(mu, t)
    /\ UNCHANGED <<typeHandlers, resourceHandlers, defaultHandler, ncalls, lastReg, scenario>>
    /\ UNCHANGED <<adapterVars, contentVars>>

\* The running handler passes what it was called with on to Dispatch (or
\* to Router.Handle, lines 116-118) of the same Router.
HandlerCallsDispatch(t) ==
    /\ InFrame(t, "Dispatch", "handler")
    /\ Depth(t) < MaxDepth
    /\ Push(t, DispatchFrame(Top(t).calls[1].ctx, Top(t).calls[1].req))
    /\ UNCHANGED <<typeHandlers, resourceHandlers, defaultHandler, mu, result, ncalls,
                   lastReg, scenario>>
    /\ UNCHANGED <<adapterVars, contentVars>>

\* The running handler calls a registration method of the same Router.
HandlerCallsRegister(t) ==
    /\ InFrame(t, "Dispatch", "handler")
    /\ Depth(t) < MaxDepth
    /\ \E f \in {RegFrame("HandleType", ActionTypeTool, UriEmpty, Top(t).sel.h),
                 RegFrame("HandleResource", "", Top(t).req.ResourceURI, Top(t).sel.h),
                 RegFrame("SetDefault", "", UriEmpty, Top(t).sel.h)} :
          Push(t, f)
    /\ UNCHANGED <<typeHandlers, resourceHandlers, defaultHandler, mu, result, ncalls,
                   lastReg, scenario>>
    /\ UNCHANGED <<adapterVars, contentVars>>

\* History: registration of h under key k has completed.  Per key: the
\* handler of the last completed registration (h) and the one before it (old).
Record(reg, k, h) ==
    [x \in DOMAIN reg \cup {k} |->
        IF x # k THEN reg[x]
        ELSE [h |-> h, old |-> IF k \in DOMAIN reg THEN reg[k].h ELSE Nil]]

(***************************************************************************)
(* HandleType, HandleResource, SetDefault: r.mu.Lock(); defer Unlock();    *)
(* one assignment.                                                         *)
(***************************************************************************)
\* r.mu.Lock(): the writer announces itself, which blocks later readers,
\* and waits until no read lock is held.
Lock(t) ==
    /\ InFrame(t, "Register", "lock")
    /\ mu.writer = 0
    /\ mu' = [mu EXCEPT !.writer = t]
    /\ stack' = [stack EXCEPT ![t] =
                    SetTop(@, [Top(t) EXCEPT !.pc = IF ActiveReaders = 0 THEN "write"
                                                   ELSE "wwait"])]
    /\ UNCHANGED <<typeHandlers, resourceHandlers, defaultHandler, result, ncalls, lastReg, scenario>>
    /\ UNCHANGED <<adapterVars, contentVars>>

LockAcquiredEarly(t) ==
    /\ InFrame(t, "Register", "wwait")
    /\ stack' = [stack EXCEPT ![t] = SetTop(@, [Top(t) EXCEPT !.pc = "write"])]
    /\ UNCHANGED <<typeHandlers, resourceHandlers, defaultHandler, mu, result, ncalls,
                   lastReg, scenario>>
    /\ UNCHANGED <<adapterVars, contentVars>>
LockAcquired(t) ==
    /\ InFrame(t, "Register", "wwait")
    /\ ActiveReaders = 0
    /\ stack' = [stack EXCEPT ![t] = SetTop(@, [Top(t) EXCEPT !.pc = "write"])]
    /\ UNCHANGED <<typeHandlers, resourceHandlers, defaultHandler, mu, result, ncalls,
                   lastReg, scenario>>
    /\ UNCHANGED <<adapterVars, contentVars>>

\* The end of a registration call: the deferred Unlock wakes the blocked
\* readers, and the call returns.
Registered(t) ==
    /\ mu' = Unlock(mu)
    /\ stack' = [u \in Threads |->
                    IF u = t THEN Pop(stack[u])
                    ELSE IF RBlocked(u)
                    THEN SetTop(stack[u], [Top(u) EXCEPT !.pc = "lookup"])
                    ELSE stack[u]]
    /\ result' = IF Depth(t) = 1
                 THEN [result EXCEPT ![t] =
                         Outcome("registered", NilResult, NoError, NilResult, NoError)]
                 ELSE result

HandleType(t) ==
    /\ InFrame(t, "Register", "write") /\ Top(t).op = "HandleType"
    /\ typeHandlers' = MapPut(typeHandlers, Top(t).tag, Top(t).h)
    /\ lastReg' = [lastReg EXCEPT !.type = Record(@, Top(t).tag, Top(t).h)]
    /\ Registered(t)
    /\ UNCHANGED <<resourceHandlers, defaultHandler, ncalls, scenario>>
    /\ UNCHANGED <<adapterVars, contentVars>>

HandleResource(t) ==
    /\ InFrame(t, "Register", "write") /\ Top(t).op = "HandleResource"
    /\ resourceHandlers' = MapPut(resourceHandlers, Top(t).uri, Top(t).h)
    /\ lastReg' = [lastReg EXCEPT !.resource = Record(@, Top(t).uri, Top(t).h)]
    /\ Registered(t)
    /\ UNCHANGED <<typeHandlers, defaultHandler, ncalls, scenario>>
    /\ UNCHANGED <<adapterVars, contentVars>>

SetDefault(t) ==
    /\ InFrame(t, "Register", "write") /\ Top(t).op = "SetDefault"
    /\ defaultHandler' = Top(t).h
    /\ lastReg' = [lastReg EXCEPT !.default = [h |-> Top(t).h, old |-> @.h]]
    /\ Registered(t)
    /\ UNCHANGED <<typeHandlers, resourceHandlers, ncalls, scenario>>
    /\ UNCHANGED <<adapterVars, contentVars>>


(***************************************************************************)
(* JSON values and encoding/json's Unmarshal into a struct, as the payload *)
(* accessors of action.go use it.                                          *)
(***************************************************************************)
JNull == [t |-> "null", s |-> "", n |-> 0, int |-> FALSE]
JString(s) == [t |-> "string", s |-> s, n |-> 0, int |-> FALSE]
JInt(n) == [t |-> "number", s |-> "", n |-> n, int |-> TRUE]
\* A number with a fraction, such as 1.5.
JFloat == [t |-> "number", s |-> "1.5", n |-> 1, int |-> FALSE]
\* An object, named by its text.
JObject(s) == [t |-> "object", s |-> s, n |-> 0, int |-> FALSE]

\* Go values of the payload structs' fields.
GoString(s) == [t |-> "string", s |-> s, n |-> 0]
GoInt(n) == [t |-> "int", s |-> "", n |-> n]
GoMap(s) == [t |-> "map", s |-> s, n |-> 0]
NilMap == GoMap("nil")

\* json.RawMessage: the bytes of a payload, by their JSON syntax.
RawInvalid == [syntax |-> "invalid", fields |-> <<>>]
RawEmpty == [syntax |-> "empty", fields |-> <<>>]
RawNull == [syntax |-> "null", fields |-> <<>>]
RawArray == [syntax |-> "array", fields |-> <<>>]
RawObject(fields) == [syntax |-> "object", fields |-> fields]

\* A struct field: its JSON key, its Go name and its Go type.
Field(key, name, type) == [key |-> key, name |-> name, type |-> type]

\* The payload structs, action.go lines 156-222.
ToolActionPayload ==
    {Field("toolName", "ToolName", "string"), Field("params", "Params", "map")}
IntentActionPayload ==
    {Field("intent", "Intent", "string"), Field("params", "Params", "map")}
PromptActionPayload == {Field("prompt", "Prompt", "string")}
NotifyActionPayload ==
    {Field("message", "Message", "string"), Field("level", "Level", "string")}
LinkActionPayload == {Field("url", "URL", "string")}
UISizeActionPayload ==
    {Field("height", "Height", "int"), Field("width", "Width", "int")}

Zero(type) ==
    IF type = "string" THEN GoString("")
    ELSE IF type = "int" THEN GoInt(0)
    ELSE NilMap

\* The Go value a JSON value decodes to, for a field of the given type.
Decodes(v, type) ==
    \/ type = "string" /\ v.t = "string"
    \/ type = "int" /\ v.t = "number" /\ v.int
    \/ type = "map" /\ v.t = "object"
GoValue(v, type) ==
    IF type = "string" THEN GoString(v.s)
    ELSE IF type = "int" THEN GoInt(v.n)
    ELSE GoMap(v.s)

ZeroStruct(struct) == [g \in {f.name : f \in struct} |-> 
                         Zero((CHOOSE f \in struct : f.name = g).type)]

\* What a decoding operation returns: (payload, error).
Decoded(v) == [ok |-> TRUE, v |-> v, err |-> NoError]
NotDecoded(struct, err) == [ok |-> FALSE, v |-> ZeroStruct(struct), err |-> err]

\* json.Unmarshal(raw, &p) for a zero struct p: a syntax error, or a value
\* that is no object, or a member of the wrong JSON type fails; null and
\* absent members leave the field zero; unknown members are ignored.
Unmarshal(raw, struct) ==
    IF raw.syntax \in {"invalid", "empty"}
    THEN NotDecoded(struct, Error(<<"json: syntax error">>))
    ELSE IF raw.syntax = "null"
    THEN Decoded(ZeroStruct(struct))
    ELSE IF raw.syntax # "object"
    THEN NotDecoded(struct, Error(<<"json: cannot unmarshal ", raw.syntax>>))
    ELSE IF \E f \in struct :
              /\ f.key \in DOMAIN raw.fields
              /\ raw.fields[f.key].t # "null"
              /\ ~Decodes(raw.fields[f.key], f.type)
    THEN NotDecoded(struct, Error(<<"json: cannot unmarshal member">>))
    ELSE Decoded([g \in {f.name : f \in struct} |->
                    LET f == CHOOSE f \in struct : f.name = g IN
                    IF f.key \in DOMAIN raw.fields /\ raw.fields[f.key].t # "null"
                    THEN GoValue(raw.fields[f.key], f.type)
                    ELSE Zero(f.type)])

\* *UIAction with its payload bytes.
UIAction(tag, payload) == [nil |-> FALSE, Type |-> tag, Payload |-> payload]

\* The narrow accessors, action.go lines 84-154: the tag is checked, then
\* the payload is decoded.
TypedPayloadUnchecked(a, tag, struct) == Unmarshal(a.Payload, struct)
TypedPayload(a, tag, struct) ==
    IF a.Type # tag
    THEN NotDecoded(struct, Error(<<"action type is ", a.Type, ", not ", tag>>))
    ELSE Unmarshal(a.Payload, struct)

ToolPayload(a) == TypedPayload(a, ActionTypeTool, ToolActionPayload)
IntentPayload(a) == TypedPayload(a, ActionTypeIntent, IntentActionPayload)
PromptPayload(a) == TypedPayload(a, ActionTypePrompt, PromptActionPayload)
NotifyPayload(a) == TypedPayload(a, ActionTypeNotify, NotifyActionPayload)
LinkPayload(a) == TypedPayload(a, ActionTypeLink, LinkActionPayload)
UISizePayload(a) == TypedPayload(a, ActionTypeUISize, UISizeActionPayload)

\* The accessor of a tag.
PayloadAccessor(tag, a) ==
    IF tag = ActionTypeTool THEN ToolPayload(a)
    ELSE IF tag = ActionTypeIntent THEN IntentPayload(a)
    ELSE IF tag = ActionTypePrompt THEN PromptPayload(a)
    ELSE IF tag = ActionTypeNotify THEN NotifyPayload(a)
    ELSE IF tag = ActionTypeLink THEN LinkPayload(a)
    ELSE UISizePayload(a)

\* url.Parse(rawURL), action.go line 202, on the URLs the model uses: the
\* scheme and the host of the URL, or an error.
ParsedURL(scheme, host) == [err |-> NoError, Scheme |-> scheme, Host |-> host]
Parse(rawURL) ==
    IF rawURL = "https://example.com" THEN ParsedURL("https", "example.com")
    ELSE IF rawURL = "http://localhost:8080/path" THEN ParsedURL("http", "localhost:8080")
    ELSE IF rawURL = "javascript:alert(1)" THEN ParsedURL("javascript", "")
    ELSE IF rawURL = "file:///etc/passwd" THEN ParsedURL("file", "")
    ELSE IF rawURL = "https:///nohost" THEN ParsedURL("https", "")
    ELSE IF rawURL = "/relative/path" THEN ParsedURL("", "")
    ELSE IF rawURL = "" THEN ParsedURL("", "")
    ELSE [err |-> Error(<<"parse ", rawURL, ": missing protocol scheme">>),
          Scheme |-> "", Host |-> ""]

\* LinkActionPayload.Validate, action.go lines 197-213: the error returned.
Validate(p) ==
    IF p.URL.s = "" THEN Error(<<"link payload URL is required">>)
    ELSE LET parsed == Parse(p.URL.s) IN
         IF ~parsed.err.nil THEN Error(<<"invalid URL: ">> \o parsed.err.text)
         ELSE IF parsed.Scheme # "http" /\ parsed.Scheme # "https"
         THEN Error(<<"URL must have http or https scheme, got: ", parsed.Scheme>>)
         ELSE IF parsed.Host = "" THEN Error(<<"URL must have a host">>)
         ELSE NoError

(***************************************************************************)
(* The handler adapters, handler.go lines 120-247.  w is what the wrapped  *)
(* function returns when it is called: a value and an error (the value is  *)
(* unused by the three adapters whose function returns an error only).     *)
(* An adapted call yields the (result, error) pair it returns and, as      *)
(* history, the arguments of every call of the wrapped function.           *)
(***************************************************************************)
Adapted(res, err, calls) == [res |-> res, err |-> err, calls |-> calls]

ExpectedErr(tag, a) == Error(<<"expected ", tag, " action, got ", a.Type>>)

WrapToolHandlerUnchecked(req, w) ==
    LET payload == Unmarshal(req.Action.Payload, ToolActionPayload)
        args == <<payload.v.ToolName, payload.v.Params>>
    IN  IF ~w.err.nil
        THEN Adapted(UIActionResult(Nil, w.err), NoError, <<args>>)
        ELSE Adapted(UIActionResult(w.val, NoError), NoError, <<args>>)

WrapToolHandler(req, w) ==
    IF req.Action.Type # ActionTypeTool
    THEN Adapted(NilResult, ExpectedErr(ActionTypeTool, req.Action), <<>>)
    ELSE LET payload == ToolPayload(req.Action) IN
         IF ~payload.ok
         THEN Adapted(NilResult, payload.err, <<>>)
         ELSE LET args == <<payload.v.ToolName, payload.v.Params>> IN
              IF ~w.err.nil
              THEN Adapted(UIActionResult(Nil, w.err), NoError, <<args>>)
              ELSE Adapted(UIActionResult(w.val, NoError), NoError, <<args>>)

WrapIntentHandler(req, w) ==
    IF req.Action.Type # ActionTypeIntent
    THEN Adapted(NilResult, ExpectedErr(ActionTypeIntent, req.Action), <<>>)
    ELSE LET payload == IntentPayload(req.Action) IN
         IF ~payload.ok
         THEN Adapted(NilResult, payload.err, <<>>)
         ELSE LET args == <<payload.v.Intent, payload.v.Params>> IN
              IF ~w.err.nil
              THEN Adapted(UIActionResult(Nil, w.err), NoError, <<args>>)
              ELSE Adapted(UIActionResult(w.val, NoError), NoError, <<args>>)

WrapPromptHandler(req, w) ==
    IF req.Action.Type # ActionTypePrompt
    THEN Adapted(NilResult, ExpectedErr(ActionTypePrompt, req.Action), <<>>)
    ELSE LET payload == PromptPayload(req.Action) IN
         IF ~payload.ok
         THEN Adapted(NilResult, payload.err, <<>>)
         ELSE LET args == <<payload.v.Prompt>> IN
              IF ~w.err.nil
              THEN Adapted(UIActionResult(Nil, w.err), NoError, <<args>>)
              ELSE Adapted(UIActionResult(w.val, NoError), NoError, <<args>>)

WrapNotifyHandlerRaises(req, w) ==
    IF req.Action.Type # ActionTypeNotify
    THEN Adapted(NilResult, ExpectedErr(ActionTypeNotify, req.Action), <<>>)
    ELSE LET payload == NotifyPayload(req.Action) IN
         IF ~payload.ok
         THEN Adapted(NilResult, payload.err, <<>>)
         ELSE LET args == <<payload.v.Message, payload.v.Level>> IN
              IF ~w.err.nil
              THEN Adapted(NilResult, w.err, <<args>>)
              ELSE Adapted(UIActionResult("acknowledged", NoError), NoError, <<args>>)

WrapNotifyHandler(req, w) ==
    IF req.Action.Type # ActionTypeNotify
    THEN Adapted(NilResult, ExpectedErr(ActionTypeNotify, req.Action), <<>>)
    ELSE LET payload == NotifyPayload(req.Action) IN
         IF ~payload.ok
         THEN Adapted(NilResult, payload.err, <<>>)
         ELSE LET args == <<payload.v.Message, payload.v.Level>> IN
              IF ~w.err.nil
              THEN Adapted(UIActionResult(Nil, w.err), NoError, <<args>>)
              ELSE Adapted(UIActionResult("acknowledged", NoError), NoError, <<args>>)

WrapLinkHandler(req, w) ==
    IF req.Action.Type # ActionTypeLink
    THEN Adapted(NilResult, ExpectedErr(ActionTypeLink, req.Action), <<>>)
    ELSE LET payload == LinkPayload(req.Action) IN
         IF ~payload.ok
         THEN Adapted(NilResult, payload.err, <<>>)
         ELSE LET args == <<payload.v.URL>> IN
              IF ~w.err.nil
              THEN Adapted(UIActionResult(Nil, w.err), NoError, <<args>>)
              ELSE Adapted(UIActionResult("opened", NoError), NoError, <<args>>)

WrapUISizeHandler(req, w) ==
    IF req.Action.Type # ActionTypeUISize
    THEN Adapted(NilResult, ExpectedErr(ActionTypeUISize, req.Action), <<>>)
    ELSE LET payload == UISizePayload(req.Action) IN
         IF ~payload.ok
         THEN Adapted(NilResult, payload.err, <<>>)
         ELSE LET args == <<payload.v.Height, payload.v.Width>> IN
              IF ~w.err.nil
              THEN Adapted(UIActionResult(Nil, w.err), NoError, <<args>>)
              ELSE Adapted(UIActionResult("acknowledged", NoError), NoError, <<args>>)

(***************************************************************************)
(* The response envelope, response.go.                                     *)
(***************************************************************************)
ResponseTypeReceived == "ui-message-received"
ResponseTypeResponse == "ui-message-response"

\* *ResponseError and *ResponsePayload: nil, or the record.
NoResponseError == [nil |-> TRUE, Message |-> <<>>, Code |-> "", Data |-> Nil]
ResponseError(message, code, data) ==
    [nil |-> FALSE, Message |-> message, Code |-> code, Data |-> data]
NoPayload == [nil |-> TRUE, Response |-> Nil, Error |-> NoResponseError]
ResponsePayload(resp, err) == [nil |-> FALSE, Response |-> resp, Error |-> err]
UIResponse(type, id, payload) == [Type |-> type, MessageID |-> id, Payload |-> payload]

NewReceivedResponseWithPayload(messageID) ==
    UIResponse(ResponseTypeReceived, messageID, ResponsePayload(Nil, NoResponseError))
NewReceivedResponse(messageID) == UIResponse(ResponseTypeReceived, messageID, NoPayload)

NewSuccessResponse(messageID, res) ==
    UIResponse(ResponseTypeResponse, messageID, ResponsePayload(res, NoResponseError))

NewErrorResponse(messageID, err) ==
    UIResponse(ResponseTypeResponse, messageID,
               ResponsePayload(Nil, ResponseError(err.text, "", Nil)))

NewErrorResponseWithCode(messageID, code, message) ==
    UIResponse(ResponseTypeResponse, messageID,
               ResponsePayload(Nil, ResponseError(message, code, Nil)))

NewErrorResponseWithData(messageID, err, data) ==
    UIResponse(ResponseTypeResponse, messageID,
               ResponsePayload(Nil, ResponseError(err.text, "", data)))

IsSuccess(r) ==
    IF r.Type = ResponseTypeReceived THEN TRUE
    ELSE ~r.Payload.nil /\ r.Payload.Error.nil

IsErrorAnyType(r) == ~r.Payload.nil /\ ~r.Payload.Error.nil
IsError(r) ==
    r.Type = ResponseTypeResponse /\ ~r.Payload.nil /\ ~r.Payload.Error.nil

\* UIActionResult.ToUIResponse, handler.go lines 36-41.
ToUIResponseDropsError(r, messageID) == NewSuccessResponse(messageID, r.Response)

ToUIResponse(r, messageID) ==
    IF ~r.Error.nil THEN NewErrorResponse(messageID, r.Error)
    ELSE NewSuccessResponse(messageID, r.Response)

(***************************************************************************)
(* The adapters and the response builder as a state machine: an adapted    *)
(* handler is called with a request, and a result is turned into a         *)
(* response.                                                               *)
(***************************************************************************)
ActionTags == {ActionTypeTool, ActionTypeIntent, ActionTypePrompt, ActionTypeNotify,
               ActionTypeLink, ActionTypeUISize}

Payloads ==
    { RawInvalid, RawEmpty, RawNull, RawArray, RawObject(<<>>),
      RawObject([toolName |-> JString("my_tool"), params |-> JObject("{verbose:true}")]),
      RawObject([toolName |-> JInt(5)]),
      RawObject([intent |-> JString("switch_scene"), params |-> JNull]),
      RawObject([prompt |-> JString("Hello")]),
      RawObject([message |-> JString("Test notification"), level |-> JString("info")]),
      RawObject([url |-> JString("https://example.com")]),
      RawObject([url |-> JString("javascript:alert(1)")]),
      RawObject([url |-> JString("https:///nohost")]),
      RawObject([url |-> JString("")]),
      RawObject([height |-> JInt(600), width |-> JInt(800)]),
      RawObject([height |-> JFloat]),
      RawObject([height |-> JString("tall")]) }

AdapterRequests ==
    {UIActionRequest(UIAction(tag, p), UriEmpty, Nil) :
        tag \in ActionTags \cup {"bogus"}, p \in Payloads}

\* What a wrapped function may return.
WrappedReturns ==
    { [val |-> "value", err |-> NoError],
      [val |-> Nil, err |-> NoError],
      [val |-> Nil, err |-> Error(<<"tool failed">>)],
      [val |-> "value", err |-> Error(<<"tool failed">>)] }
\* The functions of the notify, link and ui-size adapters return an error only.
WrappedErrors == {w \in WrappedReturns : w.val = Nil}

MessageIDs == {"", "msg-123"}

ActionResults ==
    { UIActionResult("success data", NoError),
      UIActionResult(Nil, Error(<<"something failed">>)),
      UIActionResult("success data", Error(<<"something failed">>)),
      UIActionResult(Nil, NoError) }

NoRequest == UIActionRequest(UIAction("", RawEmpty), UriEmpty, Nil)
NoWrapped == [val |-> Nil, err |-> NoError]
AdapterCall(kind, req, w, out) == [kind |-> kind, req |-> req, w |-> w, out |-> out]
NoAdapterCall == AdapterCall("none", NoRequest, NoWrapped, Adapted(NilResult, NoError, <<>>))

Response(from, r, id, env) == [from |-> from, r |-> r, id |-> id, env |-> env]
NoResponse == Response("none", NilResult, "", UIResponse("", "", NoPayload))

AdapterInit ==
    /\ adapter = NoAdapterCall
    /\ response = NoResponse

\* No adapted call and no conversion is in progress.
AdapterIdle == adapter.kind = "none" /\ response.from = "none"

CallToolHandler ==
    /\ AdapterIdle
    /\ \E req \in AdapterRequests, w \in WrappedReturns :
          adapter' = AdapterCall(ActionTypeTool, req, w, WrapToolHandler(req, w))
    /\ UNCHANGED response
    /\ UNCHANGED <<routerVars, contentVars>>

CallIntentHandler ==
    /\ AdapterIdle
    /\ \E req \in AdapterRequests, w \in WrappedReturns :
          adapter' = AdapterCall(ActionTypeIntent, req, w, WrapIntentHandler(req, w))
    /\ UNCHANGED response
    /\ UNCHANGED <<routerVars, contentVars>>

CallPromptHandler ==
    /\ AdapterIdle
    /\ \E req \in AdapterRequests, w \in WrappedReturns :
          adapter' = AdapterCall(ActionTypePrompt, req, w, WrapPromptHandler(req, w))
    /\ UNCHANGED response
    /\ UNCHANGED <<routerVars, contentVars>>

CallNotifyHandler ==
    /\ AdapterIdle
    /\ \E req \in AdapterRequests, w \in WrappedErrors :
          adapter' = AdapterCall(ActionTypeNotify, req, w, WrapNotifyHandler(req, w))
    /\ UNCHANGED response
    /\ UNCHANGED <<routerVars, contentVars>>

CallLinkHandler ==
    /\ AdapterIdle
    /\ \E req \in AdapterRequests, w \in WrappedErrors :
          adapter' = AdapterCall(ActionTypeLink, req, w, WrapLinkHandler(req, w))
    /\ UNCHANGED response
    /\ UNCHANGED <<routerVars, contentVars>>

CallUISizeHandler ==
    /\ AdapterIdle
    /\ \E req \in AdapterRequests, w \in WrappedErrors :
          adapter' = AdapterCall(ActionTypeUISize, req, w, WrapUISizeHandler(req, w))
    /\ UNCHANGED response
    /\ UNCHANGED <<routerVars, contentVars>>

\* result.ToUIResponse(messageID) on any result.
ResultToUIResponse ==
    /\ AdapterIdle
    /\ \E r \in ActionResults, m \in MessageIDs :
          response' = Response("result", r, m, ToUIResponse(r, m))
    /\ UNCHANGED adapter
    /\ UNCHANGED <<routerVars, contentVars>>

\* The inbound flow: Dispatch returns what the adapted handler returned;
\* with a nil error, the caller turns the result into the response.
DispatchedToUIResponse ==
    /\ adapter.kind # "none"
    /\ response.from = "none"
    /\ LET out == DispatchReturn(adapter.out.res, adapter.out.err) IN
       /\ out[2].nil
       /\ \E m \in MessageIDs :
             response' = Response("dispatch", out[1], m, ToUIResponse(out[1], m))
    /\ UNCHANGED adapter
    /\ UNCHANGED <<routerVars, contentVars>>

\* The caller is done with the request.
Done ==
    /\ ~AdapterIdle
    /\ adapter' = NoAdapterCall
    /\ response' = NoResponse
    /\ UNCHANGED <<routerVars, contentVars>>

NextAdapter ==
    \/ CallToolHandler
    \/ CallIntentHandler
    \/ CallPromptHandler
    \/ CallNotifyHandler
    \/ CallLinkHandler
    \/ CallUISizeHandler
    \/ ResultToUIResponse
    \/ DispatchedToUIResponse
    \/ Done

(***************************************************************************)
(* The content codec, content.go.                                          *)
(*                                                                         *)
(* A string is the sequence of its pieces.  The pieces are chosen so that  *)
(* every ";", " " and "framework=" of a MIME string is a piece of its own  *)
(* and no other piece holds one: the searches of the code (strings.Index,  *)
(* strings.IndexAny, the prefix test) then act on pieces as they act on    *)
(* characters.  The empty string is <<>>.                                  *)
(***************************************************************************)
MaxBlobLen == 3      \* longest binary data of a BlobContent

MIMETypeHTML == <<"text/html">>
MIMETypeURLList == <<"text/uri-list">>
MIMETypeRemoteDOM == <<"application/vnd.mcp-ui.remote-dom">>
FrameworkReact == <<"react">>
FrameworkWebComponents == <<"webcomponents">>

\* strings.Index(s, piece) and strings.IndexAny(s, pieces): the first
\* position, counted from 1, or 0 where Go returns -1.
Index(s, piece) ==
    IF \E i \in 1..Len(s) : s[i] = piece
    THEN CHOOSE i \in 1..Len(s) : s[i] = piece /\ \A j \in 1..(i - 1) : s[j] # piece
    ELSE 0
IndexAny(s, pieces) ==
    IF \E i \in 1..Len(s) : s[i] \in pieces
    THEN CHOOSE i \in 1..Len(s) : s[i] \in pieces /\ \A j \in 1..(i - 1) : s[j] \notin pieces
    ELSE 0

\* *Annotations: nil, or an audience list and an optional priority.
NoAnnotations == [nil |-> TRUE, Audience |-> <<>>, Priority |-> Nil]
Annotations(audience, priority) ==
    [nil |-> FALSE, Audience |-> audience, Priority |-> priority]

\* json.Marshal of *Annotations: both members are omitempty.
MarshalAnnotations(a) ==
    [k \in (IF a.Audience # <<>> THEN {"audience"} ELSE {})
           \cup (IF a.Priority # Nil THEN {"priority"} ELSE {}) |->
        IF k = "audience" THEN a.Audience ELSE a.Priority]
UnmarshalAnnotations(obj) ==
    Annotations(IF "audience" \in DOMAIN obj THEN obj.audience ELSE <<>>,
                IF "priority" \in DOMAIN obj THEN obj.priority ELSE Nil)

(***************************************************************************)
(* encoding/base64, StdEncoding.  A byte is a number in 0..255.  A base64  *)
(* text is the sequence of its characters: the digit i of the alphabet is  *)
(* the number i, "=" is PadChar, "\n" is NewLine, and BadChar is any       *)
(* character outside the alphabet.                                         *)
(***************************************************************************)
PadChar == 64
NewLine == 65
BadChar == 66

RECURSIVE EncodeToString(_)
EncodeToString(d) ==
    IF Len(d) = 0 THEN <<>>
    ELSE IF Len(d) = 1
    THEN <<d[1] \div 4, (d[1] % 4) * 16, PadChar, PadChar>>
    ELSE IF Len(d) = 2
    THEN <<d[1] \div 4, (d[1] % 4) * 16 + d[2] \div 16, (d[2] % 16) * 4, PadChar>>
    ELSE <<d[1] \div 4, (d[1] % 4) * 16 + d[2] \div 16,
           (d[2] % 16) * 4 + d[3] \div 64, d[3] % 64>>
         \o EncodeToString(SubSeq(d, 4, Len(d)))

\* The decoder skips "\r" and "\n".
RECURSIVE SkipNewLines(_)
SkipNewLines(s) ==
    IF s = <<>> THEN <<>>
    ELSE IF Head(s) = NewLine THEN SkipNewLines(Tail(s))
    ELSE <<Head(s)>> \o SkipNewLines(Tail(s))

IsDigit(c) == c \in 0..63

\* The bytes of one quantum of four characters; padding is legal in the
\* last quantum only, as "xx==" or "xxx=".
QuantumOK(q, last) ==
    \/ \A i \in 1..4 : IsDigit(q[i])
    \/ last /\ IsDigit(q[1]) /\ IsDigit(q[2]) /\ IsDigit(q[3]) /\ q[4] = PadChar
    \/ last /\ IsDigit(q[1]) /\ IsDigit(q[2]) /\ q[3] = PadChar /\ q[4] = PadChar
QuantumBytes(q) ==
    LET b1 == q[1] * 4 + q[2] \div 16 IN
    IF q[3] = PadChar THEN <<b1>>
    ELSE LET b2 == (q[2] % 16) * 16 + q[3] \div 4 IN
         IF q[4] = PadChar THEN <<b1, b2>>
         ELSE <<b1, b2, (q[3] % 4) * 64 + q[4]>>

RECURSIVE DecodeQuanta(_)
DecodeQuanta(s) ==
    IF s = <<>> THEN [ok |-> TRUE, data |-> <<>>]
    ELSE IF Len(s) < 4 \/ ~QuantumOK(SubSeq(s, 1, 4), Len(s) = 4)
    THEN [ok |-> FALSE, data |-> <<>>]
    ELSE LET rest == DecodeQuanta(SubSeq(s, 5, Len(s))) IN
         IF rest.ok
         THEN [ok |-> TRUE, data |-> QuantumBytes(SubSeq(s, 1, 4)) \o rest.data]
         ELSE rest

\* base64.StdEncoding.DecodeString(s): (bytes, ok).
DecodeString(s) == DecodeQuanta(SkipNewLines(s))

(***************************************************************************)
(* The wire envelope and the four content variants.                        *)
(***************************************************************************)
\* *wireUIContent.
NilWire == [nil |-> TRUE, MIMEType |-> <<>>, Text |-> <<>>, Blob |-> <<>>,
            Annotations |-> NoAnnotations]
wireUIContent(mimeType, text, blob, annotations) ==
    [nil |-> FALSE, MIMEType |-> mimeType, Text |-> text, Blob |-> blob,
     Annotations |-> annotations]

\* json.Marshal(&wireUIContent{...}): the JSON object, by its keys.  text,
\* blob and annotations are omitempty.
MarshalWire(w) ==
    [k \in {"mimeType"}
           \cup (IF w.Text # <<>> THEN {"text"} ELSE {})
           \cup (IF w.Blob # <<>> THEN {"blob"} ELSE {})
           \cup (IF ~w.Annotations.nil THEN {"annotations"} ELSE {}) |->
        IF k = "mimeType" THEN w.MIMEType
        ELSE IF k = "text" THEN w.Text
        ELSE IF k = "blob" THEN w.Blob
        ELSE MarshalAnnotations(w.Annotations)]

\* json.Unmarshal(data, &wire) for a zero wireUIContent.
UnmarshalWire(obj) ==
    wireUIContent(IF "mimeType" \in DOMAIN obj THEN obj.mimeType ELSE <<>>,
                  IF "text" \in DOMAIN obj THEN obj.text ELSE <<>>,
                  IF "blob" \in DOMAIN obj THEN obj.blob ELSE <<>>,
                  IF "annotations" \in DOMAIN obj
                  THEN UnmarshalAnnotations(obj.annotations) ELSE NoAnnotations)

\* The variants.  NilContent is the nil UIContent.
NilContent == [kind |-> "nil"]
HTMLContent(html, annotations) ==
    [kind |-> "HTMLContent", HTML |-> html, Annotations |-> annotations]
URLContent(url, annotations) ==
    [kind |-> "URLContent", URL |-> url, Annotations |-> annotations]
RemoteDOMContent(script, framework, annotations) ==
    [kind |-> "RemoteDOMContent", Script |-> script, Framework |-> framework,
     Annotations |-> annotations]
BlobContent(data, mimeType, annotations) ==
    [kind |-> "BlobContent", Data |-> data, ContentMIMEType |-> mimeType,
     Annotations |-> annotations]

\* (c *RemoteDOMContent) mimeType().
RemoteDOMMimeType(c) ==
    MIMETypeRemoteDOM \o <<"+javascript">> \o
    (IF c.Framework # <<>> THEN <<";", " ", "framework=">> \o c.Framework ELSE <<>>)

\* mimeType() of a variant.
MimeType(c) ==
    IF c.kind = "HTMLContent" THEN MIMETypeHTML
    ELSE IF c.kind = "URLContent" THEN MIMETypeURLList
    ELSE IF c.kind = "RemoteDOMContent" THEN RemoteDOMMimeType(c)
    ELSE c.ContentMIMEType

\* MarshalJSON of the variants: the wire envelope each builds, marshalled.
HTMLContentMarshalJSON(c) ==
    MarshalWire(wireUIContent(MIMETypeHTML, c.HTML, <<>>, c.Annotations))
URLContentMarshalJSON(c) ==
    MarshalWire(wireUIContent(MIMETypeURLList, c.URL, <<>>, c.Annotations))
RemoteDOMContentMarshalJSON(c) ==
    MarshalWire(wireUIContent(RemoteDOMMimeType(c), c.Script, <<>>, c.Annotations))
BlobContentMarshalJSONAsText(c) ==
    MarshalWire(wireUIContent(c.ContentMIMEType, EncodeToString(c.Data), <<>>,
                              c.Annotations))
BlobContentMarshalJSON(c) ==
    MarshalWire(wireUIContent(c.ContentMIMEType, <<>>, EncodeToString(c.Data),
                              c.Annotations))
MarshalJSON(c) ==
    IF c.kind = "HTMLContent" THEN HTMLContentMarshalJSON(c)
    ELSE IF c.kind = "URLContent" THEN URLContentMarshalJSON(c)
    ELSE IF c.kind = "RemoteDOMContent" THEN RemoteDOMContentMarshalJSON(c)
    ELSE BlobContentMarshalJSON(c)

\* fromWire of the variants, on a zero variant: (variant, error).
FromWire(c) == [ok |-> TRUE, v |-> c, err |-> NoError]
FromWireFailed(err) == [ok |-> FALSE, v |-> NilContent, err |-> err]

HTMLContentFromWire(wire) == FromWire(HTMLContent(wire.Text, wire.Annotations))
URLContentFromWire(wire) == FromWire(URLContent(wire.Text, wire.Annotations))

\* The framework is the text after the first "framework=", up to the first
\* ";" or " " after it.
ParseFrameworkToEnd(mimeType) ==
    LET idx == Index(mimeType, "framework=") IN
    IF idx = 0 THEN <<>> ELSE SubSeq(mimeType, idx + 1, Len(mimeType))
ParseFramework(mimeType) ==
    LET idx == Index(mimeType, "framework=") IN
    IF idx = 0 THEN <<>>
    ELSE LET frameworkPart == SubSeq(mimeType, idx + 1, Len(mimeType))
             endIdx == IndexAny(frameworkPart, {";", " "})
         IN  IF endIdx # 0 THEN SubSeq(frameworkPart, 1, endIdx - 1) ELSE frameworkPart
RemoteDOMContentFromWire(wire) ==
    FromWire(RemoteDOMContent(wire.Text, ParseFramework(wire.MIMEType), wire.Annotations))

BlobContentFromWireLenient(wire) ==
    LET dec == DecodeString(wire.Blob) IN
    FromWire(BlobContent(dec.data, wire.MIMEType, wire.Annotations))
BlobContentFromWire(wire) ==
    LET dec == DecodeString(wire.Blob) IN
    IF wire.Blob # <<>> /\ ~dec.ok
    THEN FromWireFailed(Error(<<"failed to decode base64 blob: ", "illegal base64 data">>))
    ELSE FromWire(BlobContent(IF wire.Blob # <<>> THEN dec.data ELSE <<>>,
                              wire.MIMEType, wire.Annotations))

\* ContentFromWire(wire): (UIContent, error).
ContentFromWireBlobFirst(wire) ==
    IF wire.nil THEN FromWireFailed(Error(<<"nil wire content">>))
    ELSE IF wire.Blob # <<>> THEN BlobContentFromWire(wire)
    ELSE IF wire.MIMEType = MIMETypeHTML THEN HTMLContentFromWire(wire)
    ELSE IF wire.MIMEType = MIMETypeURLList THEN URLContentFromWire(wire)
    ELSE IF IsPrefix(MIMETypeRemoteDOM, wire.MIMEType) THEN RemoteDOMContentFromWire(wire)
    ELSE FromWireFailed(Error(<<"unknown content MIME type: ">> \o wire.MIMEType))
ContentFromWire(wire) ==
    IF wire.nil THEN FromWireFailed(Error(<<"nil wire content">>))
    ELSE IF wire.MIMEType = MIMETypeHTML THEN HTMLContentFromWire(wire)
    ELSE IF wire.MIMEType = MIMETypeURLList THEN URLContentFromWire(wire)
    ELSE IF IsPrefix(MIMETypeRemoteDOM, wire.MIMEType) THEN RemoteDOMContentFromWire(wire)
    ELSE IF wire.Blob # <<>> THEN BlobContentFromWire(wire)
    ELSE FromWireFailed(Error(<<"unknown content MIME type: ">> \o wire.MIMEType))

(***************************************************************************)
(* Resource contents: UIResourceContents and NewUIResourceContents.         *)
(***************************************************************************)
\* []byte that may be nil.
NilBlob == [nil |-> TRUE, bytes |-> <<>>]
Blob(bytes) == [nil |-> FALSE, bytes |-> bytes]

\* *UIResourceContents.
NilResourceContents ==
    [nil |-> TRUE, URI |-> <<>>, MIMEType |-> <<>>, Text |-> <<>>, Blob |-> NilBlob,
     Annotations |-> NoAnnotations]
UIResourceContents(uri, mimeType, text, blob, annotations) ==
    [nil |-> FALSE, URI |-> uri, MIMEType |-> mimeType, Text |-> text, Blob |-> blob,
     Annotations |-> annotations]

\* What MarshalJSON returns: (bytes, error); the bytes are a JSON object.
Marshalled(obj) == [nil |-> FALSE, obj |-> obj, err |-> NoError]
NotMarshalled(err) == [nil |-> TRUE, obj |-> [k \in {} |-> <<>>], err |-> err]

\* (r *UIResourceContents) MarshalJSON().
UIResourceContentsMarshalJSONUnvalidated(r) ==
    Marshalled(
        [k \in {"uri"}
               \cup (IF r.MIMEType # <<>> THEN {"mimeType"} ELSE {})
               \cup (IF r.Text # <<>> THEN {"text"} ELSE {})
               \cup (IF ~r.Blob.nil THEN {"blob"} ELSE {})
               \cup (IF ~r.Annotations.nil THEN {"annotations"} ELSE {}) |->
            IF k = "uri" THEN r.URI
            ELSE IF k = "mimeType" THEN r.MIMEType
            ELSE IF k = "text" THEN r.Text
            ELSE IF k = "blob" THEN EncodeToString(r.Blob.bytes)
            ELSE MarshalAnnotations(r.Annotations)])
UIResourceContentsMarshalJSONOmitEmpty(r) ==
    IF r.URI = <<>> THEN NotMarshalled(Error(<<"UIResourceContents missing URI">>))
    ELSE IF ~r.Blob.nil /\ r.Text # <<>>
    THEN NotMarshalled(Error(<<"UIResourceContents has non-zero Text and Blob fields">>))
    ELSE Marshalled(
        [k \in {"uri"}
               \cup (IF r.MIMEType # <<>> THEN {"mimeType"} ELSE {})
               \cup (IF r.Text # <<>> THEN {"text"} ELSE {})
               \cup (IF r.Blob.bytes # <<>> THEN {"blob"} ELSE {})
               \cup (IF ~r.Annotations.nil THEN {"annotations"} ELSE {}) |->
            IF k = "uri" THEN r.URI
            ELSE IF k = "mimeType" THEN r.MIMEType
            ELSE IF k = "text" THEN r.Text
            ELSE IF k = "blob" THEN EncodeToString(r.Blob.bytes)
            ELSE MarshalAnnotations(r.Annotations)])
UIResourceContentsMarshalJSON(r) ==
    IF r.URI = <<>> THEN NotMarshalled(Error(<<"UIResourceContents missing URI">>))
    ELSE IF r.Blob.nil
    THEN \* Text content: the struct's own tags, blob omitted as empty.
         Marshalled(
            [k \in {"uri"}
                   \cup (IF r.MIMEType # <<>> THEN {"mimeType"} ELSE {})
                   \cup (IF r.Text # <<>> THEN {"text"} ELSE {})
                   \cup (IF ~r.Annotations.nil THEN {"annotations"} ELSE {}) |->
                IF k = "uri" THEN r.URI
                ELSE IF k = "mimeType" THEN r.MIMEType
                ELSE IF k = "text" THEN r.Text
                ELSE MarshalAnnotations(r.Annotations)])
    ELSE IF r.Text # <<>>
    THEN NotMarshalled(Error(<<"UIResourceContents has non-zero Text and Blob fields">>))
    ELSE \* Blob content: "blob" has no omitempty.
         Marshalled(
            [k \in (IF r.URI # <<>> THEN {"uri"} ELSE {})
                   \cup (IF r.MIMEType # <<>> THEN {"mimeType"} ELSE {})
                   \cup {"blob"}
                   \cup (IF ~r.Annotations.nil THEN {"annotations"} ELSE {}) |->
                IF k = "uri" THEN r.URI
                ELSE IF k = "mimeType" THEN r.MIMEType
                ELSE IF k = "blob" THEN EncodeToString(r.Blob.bytes)
                ELSE MarshalAnnotations(r.Annotations)])

\* What NewUIResourceContents returns: (*UIResourceContents, error).
Built(rc) == [rc |-> rc, err |-> NoError]
NotBuilt(err) == [rc |-> NilResourceContents, err |-> err]

\* NewUIResourceContents(uri, content).
NewUIResourceContentsUnchecked(uri, c) ==
    IF c.kind = "nil" THEN NotBuilt(Error(<<"content is required">>))
    ELSE LET wire == UnmarshalWire(MarshalJSON(c)) IN
         IF wire.Blob # <<>>
         THEN Built(UIResourceContents(uri, wire.MIMEType, <<>>,
                        Blob(DecodeString(wire.Blob).data), wire.Annotations))
         ELSE Built(UIResourceContents(uri, wire.MIMEType, wire.Text, NilBlob,
                        wire.Annotations))
NewUIResourceContents(uri, c) ==
    IF uri = <<>> THEN NotBuilt(Error(<<"URI is required">>))
    ELSE IF c.kind = "nil" THEN NotBuilt(Error(<<"content is required">>))
    ELSE LET wire == UnmarshalWire(MarshalJSON(c))
             decoded == DecodeString(wire.Blob)
         IN  IF wire.Blob # <<>>
             THEN IF ~decoded.ok
                  THEN NotBuilt(Error(<<"failed to decode base64 blob: ",
                                        "illegal base64 data">>))
                  ELSE Built(UIResourceContents(uri, wire.MIMEType, <<>>,
                                 Blob(decoded.data), wire.Annotations))
             ELSE Built(UIResourceContents(uri, wire.MIMEType, wire.Text, NilBlob,
                            wire.Annotations))

\* UIResourceContents.ToUIContent: the record as a wire envelope, decoded
\* by ContentFromWire.
ToUIContent(r) ==
    ContentFromWire(wireUIContent(r.MIMEType, r.Text,
                                  IF ~r.Blob.nil THEN EncodeToString(r.Blob.bytes) ELSE <<>>,
                                  r.Annotations))

(***************************************************************************)
(* UIAction.ParsePayload, action.go lines 40-82.                           *)
(***************************************************************************)
\* What ParsePayload returns: (any, error); the payload is a pointer to one
\* of the six payload structs, or nil.
Parsed(kind, v) == [nil |-> FALSE, kind |-> kind, v |-> v, err |-> NoError]
NotParsed(err) == [nil |-> TRUE, kind |-> "", v |-> <<>>, err |-> err]

ParseAsUnwrapped(a, kind, struct) ==
    LET p == Unmarshal(a.Payload, struct) IN
    IF p.ok THEN Parsed(kind, p.v) ELSE NotParsed(p.err)
ParseAs(a, kind, struct) ==
    LET p == Unmarshal(a.Payload, struct) IN
    IF p.ok THEN Parsed(kind, p.v)
    ELSE NotParsed(Error(<<"invalid ", a.Type, " payload: ">> \o p.err.text))

ParsePayloadDefaultsToTool(a) ==
    IF a.Type = ActionTypeIntent THEN ParseAs(a, "IntentActionPayload", IntentActionPayload)
    ELSE IF a.Type = ActionTypePrompt THEN ParseAs(a, "PromptActionPayload", PromptActionPayload)
    ELSE IF a.Type = ActionTypeNotify THEN ParseAs(a, "NotifyActionPayload", NotifyActionPayload)
    ELSE IF a.Type = ActionTypeLink THEN ParseAs(a, "LinkActionPayload", LinkActionPayload)
    ELSE IF a.Type = ActionTypeUISize THEN ParseAs(a, "UISizeActionPayload", UISizeActionPayload)
    ELSE ParseAs(a, "ToolActionPayload", ToolActionPayload)
ParsePayload(a) ==
    IF a.Type = ActionTypeTool THEN ParseAs(a, "ToolActionPayload", ToolActionPayload)
    ELSE IF a.Type = ActionTypeIntent THEN ParseAs(a, "IntentActionPayload", IntentActionPayload)
    ELSE IF a.Type = ActionTypePrompt THEN ParseAs(a, "PromptActionPayload", PromptActionPayload)
    ELSE IF a.Type = ActionTypeNotify THEN ParseAs(a, "NotifyActionPayload", NotifyActionPayload)
    ELSE IF a.Type = ActionTypeLink THEN ParseAs(a, "LinkActionPayload", LinkActionPayload)
    ELSE IF a.Type = ActionTypeUISize THEN ParseAs(a, "UISizeActionPayload", UISizeActionPayload)
    ELSE NotParsed(Error(<<"unknown action type: ", a.Type>>))

(***************************************************************************)
(* The codec scenario: calls of the content codec, of the resource         *)
(* contents code, of the payload decoders and of the response builders,    *)
(* each on any input of the sets below.                                    *)
(***************************************************************************)
RECURSIVE SeqsUpTo(_, _)
SeqsUpTo(S, n) ==
    IF n = 0 THEN {<<>>}
    ELSE LET shorter == SeqsUpTo(S, n - 1) IN
         shorter \cup {Append(s, x) : s \in shorter, x \in S}

SampleBytes == {0, 137, 255}
Datas == SeqsUpTo(SampleBytes, MaxBlobLen)
AnnotationSamples ==
    {NoAnnotations, Annotations(<<>>, Nil), Annotations(<<"user">>, "0.5")}
Markups == {<<>>, <<"<div>Test</div>">>}
URLs == {<<>>, <<"https://example.com">>}
Scripts == {<<>>, <<"render()">>}
Frameworks == {<<>>, FrameworkReact, FrameworkWebComponents}
BlobMIMETypes == {<<>>, <<"image/png">>, <<"application/octet-stream">>, MIMETypeHTML}

Contents ==
    {HTMLContent(h, a) : h \in Markups, a \in AnnotationSamples}
    \cup {URLContent(u, a) : u \in URLs, a \in AnnotationSamples}
    \cup {RemoteDOMContent(s, f, a) : s \in Scripts, f \in Frameworks, a \in AnnotationSamples}
    \cup {BlobContent(d, m, a) : d \in Datas, m \in BlobMIMETypes, a \in AnnotationSamples}

RemoteDOMJavaScript == MIMETypeRemoteDOM \o <<"+javascript">>
WireMIMETypes ==
    { <<>>, MIMETypeHTML, MIMETypeURLList, <<"image/png">>,
      MIMETypeHTML \o <<";", " ", "charset=utf-8">>,
      <<"application/vnd.mcp-ui">>,
      MIMETypeRemoteDOM,
      MIMETypeRemoteDOM \o <<"-x">>,
      RemoteDOMJavaScript,
      RemoteDOMJavaScript \o <<";", " ", "framework=", "react">>,
      RemoteDOMJavaScript \o <<";", " ", "framework=", "webcomponents">>,
      RemoteDOMJavaScript \o <<";", " ", "framework=", "react", ";", " ", "other=value">>,
      RemoteDOMJavaScript \o <<";", " ", "framework=", "react", " ", "x">>,
      RemoteDOMJavaScript \o <<";", " ", "other=value", ";", "framework=", "re", "act">>,
      RemoteDOMJavaScript \o <<";", " ", "framework=">>,
      <<"image/png", ";", " ", "framework=", "react">> }
WireBlobs ==
    { <<>>,
      EncodeToString(<<137, 80, 78, 71>>),
      EncodeToString(<<0, 255>>),
      <<34, 21, NewLine, 33, PadChar>>,
      <<NewLine>>,
      <<BadChar, BadChar, BadChar, BadChar>>,
      <<34, 21, 33>>,
      <<34, PadChar, PadChar, PadChar>>,
      <<34, 21, PadChar, PadChar, 34, 21, 33, 40>> }
Wires ==
    {NilWire} \cup
    {wireUIContent(m, t, b, a) :
        m \in WireMIMETypes, t \in Markups, b \in WireBlobs,
        a \in {NoAnnotations, Annotations(<<"user">>, "0.5")}}

ResourceURIs == {UriEmpty, UriTest}
ResourceRecords ==
    {UIResourceContents(u, m, t, b, a) :
        u \in ResourceURIs, m \in {<<>>, MIMETypeHTML}, t \in Markups,
        b \in {NilBlob, Blob(<<>>), Blob(<<137, 80, 78, 71>>)},
        a \in {NoAnnotations, Annotations(<<"user">>, "0.5")}}

ParseActions == {UIAction(tag, p) : tag \in ActionTags \cup {"", "bogus", "Tool"}, p \in Payloads}

\* Link payload records, as a decoding operation yields them.
LinkURLs == {"", "https://example.com", "http://localhost:8080/path", "javascript:alert(1)",
             "file:///etc/passwd", "https:///nohost", "/relative/path", "://missing-scheme"}
LinkPayloads == {[URL |-> GoString(u)] : u \in LinkURLs}

\* Arguments of the response builders, and envelopes of any shape.
ResponseValues == {Nil, "success data"}
ResponseErrors == {Error(<<"something failed">>), Error(<<>>)}
ResponseCodes == {"", "E_FAILED"}
ResponseDatas == {Nil, "details"}
Envelopes ==
    {UIResponse(type, id, payload) :
        type \in {ResponseTypeReceived, ResponseTypeResponse, "", "ui-message-other"},
        id \in MessageIDs,
        payload \in {NoPayload,
                     ResponsePayload(Nil, NoResponseError),
                     ResponsePayload("success data", NoResponseError),
                     ResponsePayload(Nil, ResponseError(<<"something failed">>, "", Nil)),
                     ResponsePayload("success data",
                                     ResponseError(<<"something failed">>, "E_FAILED", "details"))}}

NoContentCall == [op |-> "none"]

ContentInit == content = NoContentCall

\* No call is in progress.
ContentIdle == content.op = "none"

\* c.MarshalJSON(), json.Unmarshal into a wireUIContent, ContentFromWire.
EncodeDecode ==
    /\ ContentIdle
    /\ \E v \in Contents :
          LET json == MarshalJSON(v)
              wire == UnmarshalWire(json)
          IN  content' = [op |-> "EncodeDecode", v |-> v, json |-> json, wire |-> wire,
                          out |-> ContentFromWire(wire)]
    /\ UNCHANGED <<routerVars, adapterVars>>

CallContentFromWire ==
    /\ ContentIdle
    /\ \E wire \in Wires :
          content' = [op |-> "ContentFromWire", wire |-> wire, out |-> ContentFromWire(wire)]
    /\ UNCHANGED <<routerVars, adapterVars>>

CallNewUIResourceContents ==
    /\ ContentIdle
    /\ \E uri \in ResourceURIs, v \in Contents \cup {NilContent} :
          content' = [op |-> "NewUIResourceContents", uri |-> uri, v |-> v,
                      out |-> NewUIResourceContents(uri, v)]
    /\ UNCHANGED <<routerVars, adapterVars>>

CallResourceMarshalJSON ==
    /\ ContentIdle
    /\ \E r \in ResourceRecords :
          content' = [op |-> "MarshalJSON", r |-> r, out |-> UIResourceContentsMarshalJSON(r)]
    /\ UNCHANGED <<routerVars, adapterVars>>

CallParsePayload ==
    /\ ContentIdle
    /\ \E a \in ParseActions :
          content' = [op |-> "ParsePayload", a |-> a, out |-> ParsePayload(a)]
    /\ UNCHANGED <<routerVars, adapterVars>>

\* One of the six accessors is called on an action; `parsed` is what
\* ParsePayload returns for the same action.
CallPayloadAccessor ==
    /\ ContentIdle
    /\ \E tag \in ActionTags, a \in ParseActions :
          content' = [op |-> "PayloadAccessor", tag |-> tag, a |-> a,
                      out |-> PayloadAccessor(tag, a), parsed |-> ParsePayload(a)]
    /\ UNCHANGED <<routerVars, adapterVars>>

CallValidate ==
    /\ ContentIdle
    /\ \E p \in LinkPayloads : content' = [op |-> "Validate", p |-> p, out |-> Validate(p)]
    /\ UNCHANGED <<routerVars, adapterVars>>

CallNewReceivedResponse ==
    /\ ContentIdle
    /\ \E id \in MessageIDs :
          content' = [op |-> "NewReceivedResponse", id |-> id, out |-> NewReceivedResponse(id)]
    /\ UNCHANGED <<routerVars, adapterVars>>

CallNewSuccessResponse ==
    /\ ContentIdle
    /\ \E id \in MessageIDs, v \in ResponseValues :
          content' = [op |-> "NewSuccessResponse", id |-> id, v |-> v,
                      out |-> NewSuccessResponse(id, v)]
    /\ UNCHANGED <<routerVars, adapterVars>>

CallNewErrorResponse ==
    /\ ContentIdle
    /\ \E id \in MessageIDs, e \in ResponseErrors :
          content' = [op |-> "NewErrorResponse", id |-> id, e |-> e,
                      out |-> NewErrorResponse(id, e)]
    /\ UNCHANGED <<routerVars, adapterVars>>

CallNewErrorResponseWithCode ==
    /\ ContentIdle
    /\ \E id \in MessageIDs, code \in ResponseCodes, e \in ResponseErrors :
          content' = [op |-> "NewErrorResponseWithCode", id |-> id, code |-> code,
                      message |-> e.text,
                      out |-> NewErrorResponseWithCode(id, code, e.text)]
    /\ UNCHANGED <<routerVars, adapterVars>>

CallNewErrorResponseWithData ==
    /\ ContentIdle
    /\ \E id \in MessageIDs, e \in ResponseErrors, data \in ResponseDatas :
          content' = [op |-> "NewErrorResponseWithData", id |-> id, e |-> e, data |-> data,
                      out |-> NewErrorResponseWithData(id, e, data)]
    /\ UNCHANGED <<routerVars, adapterVars>>

\* r.IsSuccess() and r.IsError() on one envelope.
CallIsSuccessIsError ==
    /\ ContentIdle
    /\ \E r \in Envelopes :
          content' = [op |-> "IsSuccessIsError", r |-> r, success |-> IsSuccess(r),
                      error |-> IsError(r)]
    /\ UNCHANGED <<routerVars, adapterVars>>

\* NewUIResourceContents(uri, v), then ToUIContent on the record it built;
\* the caller returns the error of NewUIResourceContents when it fails.
ResourceRoundTrip ==
    /\ ContentIdle
    /\ \E uri \in ResourceURIs, v \in Contents :
          LET built == NewUIResourceContents(uri, v) IN
          content' = [op |-> "ResourceRoundTrip", uri |-> uri, v |-> v, rc |-> built.rc,
                      out |-> IF built.err.nil THEN ToUIContent(built.rc)
                              ELSE FromWireFailed(built.err)]
    /\ UNCHANGED <<routerVars, adapterVars>>

\* The caller is done with what the call returned.
ContentDone ==
    /\ ~ContentIdle
    /\ content' = NoContentCall
    /\ UNCHANGED <<routerVars, adapterVars>>

NextContent ==
    \/ EncodeDecode
    \/ CallContentFromWire
    \/ CallNewUIResourceContents
    \/ CallResourceMarshalJSON
    \/ CallParsePayload
    \/ CallPayloadAccessor
    \/ CallValidate
    \/ CallNewReceivedResponse
    \/ CallNewSuccessResponse
    \/ CallNewErrorResponse
    \/ CallNewErrorResponseWithCode
    \/ CallNewErrorResponseWithData
    \/ CallIsSuccessIsError
    \/ ResourceRoundTrip
    \/ ContentDone

InitContent ==
    /\ RouterInit
    /\ scenario = "sequential"
    /\ AdapterInit
    /\ ContentInit

SpecContent == InitContent /\ [][NextContent]_vars

(***************************************************************************)
(* The adapter scenario's specification.                                   *)
(***************************************************************************)
InitAdapter ==
    /\ RouterInit
    /\ scenario = "sequential"
    /\ AdapterInit
    /\ ContentInit

SpecAdapter == InitAdapter /\ [][NextAdapter]_vars

(***************************************************************************)
(* The Router's specification: NewRouter(), then any calls.                *)
(***************************************************************************)
Init ==
    /\ RouterInit
    /\ AdapterInit
    /\ ContentInit

Next ==
    \E t \in Threads :
        \/ CallDispatch(t)
        \/ CallHandleType(t)
        \/ CallHandleResource(t)
        \/ CallSetDefault(t)
        \/ RLock(t)
        \/ DispatchInvoke(t)
        \/ DispatchNoHandler(t)
        \/ DispatchPanic(t)
        \/ HandlerReturn(t)
        \/ HandlerCallsDispatch(t)
        \/ HandlerCallsRegister(t)
        \/ Lock(t)
        \/ LockAcquired(t)
        \/ HandleType(t)
        \/ HandleResource(t)
        \/ SetDefault(t)

Spec == Init /\ [][Next]_vars

(***************************************************************************)
(* Properties of the Router.                                               *)
(***************************************************************************)
\* Thread t's Dispatch call, at its lookup, takes its next step.
LookupStep(t) == InFrame(t, "Dispatch", "lookup") /\ stack'[t] # stack[t]

\* After the step, t's Dispatch call is running handler h, found in `tier`.
InvokedNext(t, tier, h) ==
    /\ Len(stack'[t]) = Len(stack[t])
    /\ stack'[t][Len(stack'[t])].pc = "handler"
    /\ stack'[t][Len(stack'[t])].sel = [tier |-> tier, h |-> h]

ResourceMatch(req) ==
    req.ResourceURI # UriEmpty /\ req.ResourceURI \in DOMAIN resourceHandlers
TypeMatch(req) ==
    ~req.Action.nil /\ req.Action.Type \in DOMAIN typeHandlers

\* C1: Router priority.  Whatever registrations came before, a Dispatch
\* invokes the resource handler registered under exactly the request's
\* non-empty URI; otherwise the type handler of the action's tag, when the
\* action is present; otherwise the default handler, when set.  A key that
\* is only a prefix or an extension of the request's URI selects nothing.
C1_RouterPriority ==
    [][\A t \in Threads :
          LookupStep(t) =>
            LET req == Top(t).req IN
            /\ ResourceMatch(req) =>
                  InvokedNext(t, "resource", resourceHandlers[req.ResourceURI])
            /\ (~ResourceMatch(req) /\ TypeMatch(req)) =>
                  InvokedNext(t, "type", typeHandlers[req.Action.Type])
            /\ (~ResourceMatch(req) /\ ~TypeMatch(req) /\ defaultHandler # Nil) =>
                  InvokedNext(t, "default", defaultHandler)
            /\ (\A k \in DOMAIN resourceHandlers : k # req.ResourceURI) =>
                  ~\E h \in Handlers : InvokedNext(t, "resource", h)
      ]_vars

\* C1 witness: the three tiers are registered and the request's URI is a
\* key; the resource handler runs, although a type handler for the action
\* and a default handler exist.
C1_Witness ==
    /\ Sequential
    /\ defaultHandler # Nil
    /\ ActionTypeTool \in DOMAIN typeHandlers
    /\ UriTest \in DOMAIN resourceHandlers
    /\ InFrame(1, "Dispatch", "handler")
    /\ Top(1).req = UIActionRequest(Action(ActionTypeTool), UriTest, Nil)
    /\ Top(1).sel = [tier |-> "resource", h |-> resourceHandlers[UriTest]]

\* C2: the no-handler case.  When no resource handler is registered for the
\* request's URI, no type handler for the action's tag and no default
\* handler, Dispatch returns the no-handler error and no result, whether
\* the action is present or absent.
C2_NoHandlerError ==
    [][\A t \in Threads :
          (/\ LookupStep(t)
           /\ Top(t).req.ResourceURI \notin DOMAIN resourceHandlers
           /\ ~TypeMatch(Top(t).req)
           /\ defaultHandler = Nil)
          => /\ stack'[t] = Pop(stack[t])
             /\ Depth(t) = 1 =>
                  /\ result'[t].kind = "nohandler"
                  /\ result'[t].res = NilResult
                  /\ result'[t].err = ErrNoHandler(Top(t).req)
      ]_vars

\* C3: while a handler invoked by Dispatch runs, that Dispatch call holds no
\* lock of the Router, and no registration call of another thread waits for
\* the handler to finish.
C3_HandlerRunsUnlocked ==
    \A t \in Threads :
        InFrame(t, "Dispatch", "handler") =>
            /\ mu.readers[t] = 0
            /\ \A u \in Threads \ {t} : ~InFrame(u, "Register", "wwait")

\* C4: the Router is reentrant.  A registration call made by a running
\* handler on the same Router is never blocked when no other thread is
\* inside the Router: it returns, and the enclosing Dispatch terminates.
C4_ReentrantRegistration ==
    \A t \in Threads :
        (/\ Depth(t) >= 2
         /\ Top(t).kind = "Register"
         /\ \A u \in Threads \ {t} : Idle(u))
        => /\ Top(t).pc = "lock" => mu.writer = 0
           /\ Top(t).pc = "wwait" => ActiveReaders = 0

\* C5: the Router does not serialize dispatches.  A Dispatch call waits only
\* while a registration call is in progress, never for another Dispatch's
\* handler.
C5_DispatchesNotSerialized ==
    \A t \in Threads :
        InFrame(t, "Dispatch", "rblocked") =>
            /\ mu.writer # 0
            /\ Top(mu.writer).kind = "Register"

\* C5 witness: two Dispatch calls run the same handler at the same time,
\* with no registration call in progress.
C5_Witness ==
    \E t, u \in Threads :
        /\ t # u
        /\ InFrame(t, "Dispatch", "handler")
        /\ InFrame(u, "Dispatch", "handler")
        /\ Top(t).sel = Top(u).sel
        /\ mu.writer = 0
        /\ \A v \in Threads : Idle(v) \/ Top(v).kind = "Dispatch"

\* The handler the registries hold for the tier a Dispatch frame selected.
Frames(t) == {stack[t][i] : i \in 1..Len(stack[t])}
Running(t) == {f \in Frames(t) : f.kind = "Dispatch" /\ f.pc = "handler"}
LastRegistered(f) ==
    IF f.sel.tier = "resource" THEN lastReg.resource[f.req.ResourceURI]
    ELSE IF f.sel.tier = "type" THEN lastReg.type[f.req.Action.Type]
    ELSE lastReg.default

\* C6: last registration wins.  Each entry of the type map and of the
\* resource map, and the default slot, is the handler of the most recent
\* completed registration for that key, and it is the handler a Dispatch
\* runs: never the one registered before it.
C6_LastRegistrationWins ==
    /\ DOMAIN typeHandlers = DOMAIN lastReg.type
    /\ \A k \in DOMAIN typeHandlers : typeHandlers[k] = lastReg.type[k].h
    /\ DOMAIN resourceHandlers = DOMAIN lastReg.resource
    /\ \A k \in DOMAIN resourceHandlers : resourceHandlers[k] = lastReg.resource[k].h
    /\ defaultHandler = lastReg.default.h
    /\ \A t \in Threads : \A f \in Running(t) : f.sel.h = LastRegistered(f).h

\* C6 witness: a key was registered twice, with different handlers, and a
\* Dispatch runs the later one.
C6_Witness ==
    \E t \in Threads :
        /\ InFrame(t, "Dispatch", "handler")
        /\ LastRegistered(Top(t)).old \notin {Nil, Top(t).sel.h}

\* C7: Dispatch returns exactly the (result, error) pair of the handler it
\* invoked: a returned error stays the returned error, an Error field of the
\* result stays in the result, with a nil returned error.
C7_DispatchPreservesReturn ==
    \A t \in Threads :
        result[t].kind = "return" =>
            /\ result[t].res = result[t].hres
            /\ result[t].err = result[t].herr
            /\ ~result[t].herr.nil => ~result[t].err.nil
            /\ (result[t].herr.nil /\ ~result[t].hres.Error.nil) =>
                  (result[t].err.nil /\ result[t].res.Error = result[t].hres.Error)

\* C7 witness: the handler returned a result with its Error field set and a
\* nil error, and Dispatch has returned.
C7_Witness ==
    \E t \in Threads :
        /\ result[t].kind = "return"
        /\ result[t].herr.nil
        /\ result[t].hres.Error = Error(<<"business failure">>)

(***************************************************************************)
(* Properties of the handler adapters and of ToUIResponse.                 *)
(***************************************************************************)
\* The payload record of the adapter for `tag`, and the arguments its
\* wrapped function takes from a decoded record p.
RecordOf(tag) ==
    IF tag = ActionTypeTool THEN ToolActionPayload
    ELSE IF tag = ActionTypeIntent THEN IntentActionPayload
    ELSE IF tag = ActionTypePrompt THEN PromptActionPayload
    ELSE IF tag = ActionTypeNotify THEN NotifyActionPayload
    ELSE IF tag = ActionTypeLink THEN LinkActionPayload
    ELSE UISizeActionPayload
ArgumentsOf(tag, p) ==
    IF tag = ActionTypeTool THEN <<p.ToolName, p.Params>>
    ELSE IF tag = ActionTypeIntent THEN <<p.Intent, p.Params>>
    ELSE IF tag = ActionTypePrompt THEN <<p.Prompt>>
    ELSE IF tag = ActionTypeNotify THEN <<p.Message, p.Level>>
    ELSE IF tag = ActionTypeLink THEN <<p.URL>>
    ELSE <<p.Height, p.Width>>

AdapterCalled == adapter.kind # "none"
TagMatches == adapter.req.Action.Type = adapter.kind
PayloadDecodes == Unmarshal(adapter.req.Action.Payload, RecordOf(adapter.kind)).ok

\* C8: an adapted handler called with an action of another tag, or with a
\* payload that does not decode into its tag's record, returns a nil result
\* and a non-nil error, and the wrapped function is not called.
C8_AdapterRejects ==
    (AdapterCalled /\ (~TagMatches \/ ~PayloadDecodes)) =>
        /\ adapter.out.res = NilResult
        /\ ~adapter.out.err.nil
        /\ adapter.out.calls = <<>>

\* C8 witness: the tool adapter was called with a prompt action whose
\* payload is a well-formed prompt payload.
C8_Witness ==
    /\ adapter.kind = ActionTypeTool
    /\ adapter.req.Action = UIAction(ActionTypePrompt, RawObject([prompt |-> JString("Hello")]))
    /\ ~adapter.out.err.nil

\* C9: an adapted handler called with an action of its tag whose payload
\* decodes calls the wrapped function once, with the decoded fields, and
\* returns a nil error; the result carries the wrapped function's error in
\* Error, with no Response, or else its value ("acknowledged" for notify
\* and ui-size-change, "opened" for link) in Response, with no Error.
C9_AdapterPackages ==
    (AdapterCalled /\ TagMatches /\ PayloadDecodes) =>
        LET p == Unmarshal(adapter.req.Action.Payload, RecordOf(adapter.kind)).v
            ack == IF adapter.kind \in {ActionTypeNotify, ActionTypeUISize} THEN "acknowledged"
                   ELSE IF adapter.kind = ActionTypeLink THEN "opened"
                   ELSE adapter.w.val
        IN  /\ adapter.out.calls = <<ArgumentsOf(adapter.kind, p)>>
            /\ adapter.out.err.nil
            /\ ~adapter.out.res.nil
            /\ ~adapter.w.err.nil =>
                  /\ adapter.out.res.Error = adapter.w.err
                  /\ adapter.out.res.Response = Nil
            /\ adapter.w.err.nil =>
                  /\ adapter.out.res.Error.nil
                  /\ adapter.out.res.Response = ack

\* C9 witness: the tool adapter was called with a tool payload, and the
\* wrapped function, called with the tool name and the parameters, failed.
C9_Witness ==
    /\ adapter.kind = ActionTypeTool
    /\ adapter.out.calls = << <<GoString("my_tool"), GoMap("{verbose:true}")>> >>
    /\ adapter.w.err = Error(<<"tool failed">>)
    /\ adapter.out.res.Error = Error(<<"tool failed">>)

\* C10: business errors become responses.  r.ToUIResponse(m) is a
\* ui-message-response envelope with message id m: an error envelope with
\* r.Error's text when r.Error is set, a success envelope with r.Response
\* otherwise.  An action that went through Dispatch and an adapter whose
\* wrapped function failed ends in an error envelope with that failure's text.
C10_ErrorsBecomeResponses ==
    /\ response.from # "none" =>
          /\ response.env.Type = ResponseTypeResponse
          /\ response.env.MessageID = response.id
          /\ ~response.r.Error.nil =>
                /\ IsError(response.env) /\ ~IsSuccess(response.env)
                /\ response.env.Payload.Error.Message = response.r.Error.text
          /\ response.r.Error.nil =>
                /\ IsSuccess(response.env) /\ ~IsError(response.env)
                /\ response.env.Payload.Response = response.r.Response
    /\ (response.from = "dispatch" /\ adapter.out.calls # <<>> /\ ~adapter.w.err.nil) =>
          /\ IsError(response.env)
          /\ response.env.Payload.Error.Message = adapter.w.err.text

\* C10 witness: the wrapped function of an adapter failed, and the response
\* has been built from the dispatched result.
C10_Witness ==
    /\ response.from = "dispatch"
    /\ adapter.out.calls # <<>>
    /\ adapter.w.err = Error(<<"tool failed">>)
    /\ response.id = "msg-123"

(***************************************************************************)
(* Properties of the content codec, of the resource contents and of        *)
(* ParsePayload.                                                           *)
(***************************************************************************)
Called(op) == content.op = op
JSONKeys(obj) == DOMAIN obj

\* C11: the content round trip.  Encoding a variant to the wire envelope and
\* decoding that envelope succeeds and gives a variant of the same kind with
\* the same observable fields, for the four kinds, empty markup, empty
\* framework and a zero-length blob included.
C11_ContentRoundTrip ==
    Called("EncodeDecode") =>
        /\ content.out.ok
        /\ content.out.v.kind = content.v.kind
        /\ content.out.v = content.v

IsHTMLWire(w) == w.MIMEType = <<"text/html">>
IsURLWire(w) == ~IsHTMLWire(w) /\ w.MIMEType = <<"text/uri-list">>
IsRemoteDOMWire(w) ==
    /\ ~IsHTMLWire(w) /\ w.MIMEType # <<"text/uri-list">>
    /\ Len(w.MIMEType) >= 1
    /\ w.MIMEType[1] = "application/vnd.mcp-ui.remote-dom"
IsBinaryWire(w) ==
    /\ ~IsHTMLWire(w) /\ ~IsURLWire(w) /\ ~IsRemoteDOMWire(w)
    /\ w.Blob # <<>>
Unrecognized(out) ==
    /\ ~out.ok
    /\ out.v = NilContent
    /\ ~out.err.nil
    /\ Head(out.err.text) = "unknown content MIME type: "

\* What the dispatch does outside the binary branch.
DecodeDispatchText(w, out) ==
    /\ w.nil => (~out.ok /\ out.v = NilContent /\ ~out.err.nil)
    /\ (~w.nil /\ IsHTMLWire(w)) =>
          (out.ok /\ out.v.kind = "HTMLContent" /\ out.v.HTML = w.Text)
    /\ (~w.nil /\ IsURLWire(w)) =>
          (out.ok /\ out.v.kind = "URLContent" /\ out.v.URL = w.Text)
    /\ (~w.nil /\ IsRemoteDOMWire(w)) =>
          /\ out.ok /\ out.v.kind = "RemoteDOMContent" /\ out.v.Script = w.Text
          /\ (\A i \in 1..Len(w.MIMEType) : w.MIMEType[i] # "framework=")
                => out.v.Framework = <<>>
    /\ (~w.nil /\ ~IsHTMLWire(w) /\ ~IsURLWire(w) /\ ~IsRemoteDOMWire(w)
          /\ w.Blob = <<>>) => Unrecognized(out)

\* C13, as claimed: the decode dispatch, in its order; an envelope of
\* another MIME type with a non-empty blob gives the binary variant.
C13_DecodeDispatch ==
    Called("ContentFromWire") =>
        /\ DecodeDispatchText(content.wire, content.out)
        /\ (~content.wire.nil /\ IsBinaryWire(content.wire)) =>
              /\ content.out.ok
              /\ content.out.v.kind = "BlobContent"
              /\ content.out.v.ContentMIMEType = content.wire.MIMEType

\* C13, amended: the decode dispatch, in its order; an envelope of another
\* MIME type with a non-empty blob gives the binary variant when the blob
\* is valid base64, and a decode error and no variant when it is not.
C13_DecodeDispatchValidBlob ==
    Called("ContentFromWire") =>
        /\ DecodeDispatchText(content.wire, content.out)
        /\ (~content.wire.nil /\ IsBinaryWire(content.wire)) =>
              IF DecodeString(content.wire.Blob).ok
              THEN /\ content.out.ok
                   /\ content.out.v.kind = "BlobContent"
                   /\ content.out.v.ContentMIMEType = content.wire.MIMEType
              ELSE /\ ~content.out.ok
                   /\ content.out.v = NilContent
                   /\ ~content.out.err.nil
                   /\ ~Unrecognized(content.out)

\* C13 witness: an envelope of MIME type text/html that also has a blob was
\* decoded, and the first branch of the order gave the inline markup.
C13_Witness ==
    /\ Called("ContentFromWire")
    /\ content.wire.MIMEType = <<"text/html">>
    /\ content.wire.Blob # <<>>
    /\ content.out.ok
    /\ content.out.v.kind = "HTMLContent"

C15_ExactlyOneBody ==
    (Called("NewUIResourceContents") /\ ~content.out.rc.nil) =>
        LET rc == content.out.rc
            hasText == rc.Text # <<>>
            hasBlob == ~rc.Blob.nil
        IN  /\ rc.URI # <<>>
            /\ ~(hasText /\ hasBlob)
            /\ (~hasText /\ ~hasBlob) =>
                  (content.v.kind = "BlobContent" /\ content.v.Data = <<>>)

\* C16: NewUIResourceContents fails, with no record, on an empty uri and on
\* a nil content; otherwise it succeeds, and the record has the uri, the
\* variant's wire MIME type and the variant's annotations.
C16_NewUIResourceContents ==
    Called("NewUIResourceContents") =>
        IF content.uri = <<>> \/ content.v = NilContent
        THEN content.out.rc.nil /\ ~content.out.err.nil
        ELSE /\ ~content.out.rc.nil
             /\ content.out.err.nil
             /\ content.out.rc.URI = content.uri
             /\ content.out.rc.MIMEType = MimeType(content.v)
             /\ content.out.rc.Annotations = content.v.Annotations

\* C16 witness: a record was built from a remote-DOM variant with a
\* framework and annotations.
C16_Witness ==
    /\ Called("NewUIResourceContents")
    /\ content.uri = <<"ui://", "te", "st">>
    /\ content.v.kind = "RemoteDOMContent"
    /\ content.v.Framework = <<"react">>
    /\ ~content.v.Annotations.nil
    /\ ~content.out.rc.nil

\* C17: serializing a resource-contents record fails, with no bytes, when
\* the record has a non-empty text and a non-nil blob, and when its uri is
\* empty; it succeeds for every other record.
C17_MarshalValidates ==
    Called("MarshalJSON") =>
        IF content.r.URI = <<>> \/ (content.r.Text # <<>> /\ ~content.r.Blob.nil)
        THEN content.out.nil /\ ~content.out.err.nil
        ELSE ~content.out.nil /\ content.out.err.nil

\* C17 witness: a record with a uri, a text and a blob was refused.
C17_Witness ==
    /\ Called("MarshalJSON")
    /\ content.r.URI # <<>>
    /\ content.r.Text # <<>>
    /\ ~content.r.Blob.nil
    /\ content.out.nil

\* C18: in the serialized object, a record whose blob is non-nil, also of
\* zero length, has a "blob" key and no "text" key; a record whose blob is
\* nil has no "blob" key, and a "text" key only if its text is non-empty.
C18_BlobKeyAlways ==
    (Called("MarshalJSON") /\ ~content.out.nil) =>
        LET keys == JSONKeys(content.out.obj) IN
        /\ ~content.r.Blob.nil => ("blob" \in keys /\ "text" \notin keys)
        /\ content.r.Blob.nil =>
              /\ "blob" \notin keys
              /\ "text" \in keys => content.r.Text # <<>>

\* C18 witness: a record with a non-nil blob of zero length was serialized
\* with a "blob" key.
C18_Witness ==
    /\ Called("MarshalJSON")
    /\ content.r.Blob = Blob(<<>>)
    /\ ~content.out.nil
    /\ "blob" \in JSONKeys(content.out.obj)
    /\ content.out.obj.blob = <<>>

\* C19: decoding an envelope routed to the binary variant returns a decode
\* error and no variant when the blob is not valid base64, and the variant
\* with exactly the decoded bytes when it is: "iVBORw==" gives the bytes
\* 0x89 0x50 0x4E 0x47.
C19_BinaryDecode ==
    (Called("ContentFromWire") /\ ~content.wire.nil /\ IsBinaryWire(content.wire)) =>
        LET dec == DecodeString(content.wire.Blob) IN
        /\ ~dec.ok =>
              /\ ~content.out.ok
              /\ content.out.v = NilContent
              /\ ~content.out.err.nil
        /\ dec.ok =>
              /\ content.out.ok
              /\ content.out.v.kind = "BlobContent"
              /\ content.out.v.Data = dec.data
        /\ content.wire.Blob = <<34, 21, 1, 14, 17, 48, 64, 64>> =>
              (content.out.ok /\ content.out.v.Data = <<137, 80, 78, 71>>)
        /\ (\E i \in 1..Len(content.wire.Blob) : content.wire.Blob[i] = BadChar) =>
              ~content.out.ok

\* C19 witness: an envelope of MIME type image/png whose blob has a
\* character outside the base64 alphabet was decoded, with an error.
C19_Witness ==
    /\ Called("ContentFromWire")
    /\ content.wire.MIMEType = <<"image/png">>
    /\ content.wire.Blob = <<BadChar, BadChar, BadChar, BadChar>>
    /\ ~content.out.ok
    /\ content.out.v = NilContent

\* C20: ParsePayload on an action whose type is none of the six tags, the
\* empty string included, returns the unknown-action-type error and no
\* payload, whatever the payload bytes.
C20_ParsePayloadClosed ==
    (/\ Called("ParsePayload")
     /\ content.a.Type \notin {"tool", "intent", "prompt", "notify", "link", "ui-size-change"})
    => /\ content.out.nil
       /\ ~content.out.err.nil
       /\ content.out.err.text = <<"unknown action type: ", content.a.Type>>

\* C20 witness: ParsePayload was called on a bogus action with a
\* well-formed tool payload, and it returned an error.
C20_Witness ==
    /\ Called("ParsePayload")
    /\ content.a.Type = "bogus"
    /\ content.a.Payload =
          RawObject([toolName |-> JString("my_tool"), params |-> JObject("{verbose:true}")])
    /\ content.out.nil

(***************************************************************************)
(* Properties of the payload decoders, of the response envelope and of the *)
(* resource round trip.                                                    *)
(***************************************************************************)
\* The name of the payload record of a tag.
KindOf(tag) ==
    IF tag = ActionTypeTool THEN "ToolActionPayload"
    ELSE IF tag = ActionTypeIntent THEN "IntentActionPayload"
    ELSE IF tag = ActionTypePrompt THEN "PromptActionPayload"
    ELSE IF tag = ActionTypeNotify THEN "NotifyActionPayload"
    ELSE IF tag = ActionTypeLink THEN "LinkActionPayload"
    ELSE "UISizeActionPayload"

\* A JSON value has the JSON type of a field of the given Go type.
WellTyped(v, type) ==
    \/ v.t = "null"
    \/ v.t = "string" /\ type = "string"
    \/ v.t = "number" /\ v.int /\ type = "int"
    \/ v.t = "object" /\ type = "map"

\* The payload is a JSON object whose members have their field's type.
WellFormed(raw, struct) ==
    /\ raw.syntax = "object"
    /\ \A f \in struct : f.key \in DOMAIN raw.fields => WellTyped(raw.fields[f.key], f.type)
\* The payload is no JSON, or no object, or has a member of another type.
Malformed(raw, struct) ==
    \/ raw.syntax \in {"invalid", "empty", "array"}
    \/ /\ raw.syntax = "object"
       /\ \E f \in struct : f.key \in DOMAIN raw.fields /\ ~WellTyped(raw.fields[f.key], f.type)

\* The value of field f that a well-formed payload gives.
FieldValue(raw, f) ==
    IF f.key \in DOMAIN raw.fields /\ raw.fields[f.key].t # "null"
    THEN [t |-> f.type, s |-> raw.fields[f.key].s, n |-> raw.fields[f.key].n]
    ELSE [t |-> f.type, s |-> IF f.type = "map" THEN "nil" ELSE "", n |-> 0]

C22_AccessorsCheckTag ==
    Called("PayloadAccessor") =>
        IF content.a.Type # content.tag
        THEN /\ ~content.out.ok
             /\ content.out.err = Error(<<"action type is ", content.a.Type, ", not ",
                                          content.tag>>)
        ELSE /\ content.out.ok <=> ~content.parsed.nil
             /\ content.out.ok =>
                   /\ content.parsed.kind = KindOf(content.tag)
                   /\ content.out.v = content.parsed.v

\* C22 witness: the tool accessor was called on a prompt action whose
\* payload is an object that would decode as a tool payload, and it
\* returned the type-mismatch error.
C22_Witness ==
    /\ Called("PayloadAccessor")
    /\ content.tag = "tool"
    /\ content.a = UIAction("prompt", RawObject([toolName |-> JString("my_tool"),
                                                   params |-> JObject("{verbose:true}")]))
    /\ ~content.out.ok
    /\ content.out.err.text = <<"action type is ", "prompt", ", not ", "tool">>

\* The URL has the scheme http or https and a non-empty host.
ValidLinkURL(u) ==
    /\ Parse(u).err.nil
    /\ Parse(u).Scheme \in {"http", "https"}
    /\ Parse(u).Host # ""

\* C23: every link payload that ParsePayload or the link accessor yields
\* has a URL with the scheme http or https and a non-empty host.
C23_LinkPayloadsValidated ==
    /\ (Called("ParsePayload") /\ content.a.Type = "link" /\ ~content.out.nil)
          => ValidLinkURL(content.out.v.URL.s)
    /\ (Called("PayloadAccessor") /\ content.tag = "link" /\ content.out.ok)
          => ValidLinkURL(content.out.v.URL.s)

C25_SuccessErrorPredicates ==
    Called("IsSuccessIsError") =>
        LET r == content.r IN
        /\ r.Type = "ui-message-received" => content.success
        /\ r.Type = "ui-message-response" =>
              /\ content.success <=> (~r.Payload.nil /\ r.Payload.Error.nil)
              /\ content.error <=> (~r.Payload.nil /\ ~r.Payload.Error.nil)
        /\ (r.Type = "ui-message-response" /\ r.Payload.nil) =>
              (~content.success /\ ~content.error)
        /\ ~(content.success /\ content.error)

\* C25 witness: the predicates were evaluated on a received envelope that
\* carries a payload with an error object: it is a success and no error.
C25_Witness ==
    /\ Called("IsSuccessIsError")
    /\ content.r.Type = "ui-message-received"
    /\ ~content.r.Payload.nil
    /\ ~content.r.Payload.Error.nil
    /\ content.success
    /\ ~content.error

\* C30: the resource-contents round trip.  For a non-empty uri and every
\* variant, empty markup and a zero-length blob included,
\* NewUIResourceContents followed by ToUIContent succeeds and gives a
\* variant of the same kind with the same observable fields.
C30_ResourceRoundTrip ==
    (Called("ResourceRoundTrip") /\ content.uri # <<>>) =>
        /\ content.out.ok
        /\ content.out.v.kind = content.v.kind
        /\ content.out.v = content.v

(***************************************************************************)
(* Properties of the Router: frame, pass-through, nesting, atomicity.      *)
(***************************************************************************)
\* In this step thread t's registration call, holding the write lock, makes
\* its assignment and returns.
RegistrationStep(t) == InFrame(t, "Register", "write") /\ Len(stack'[t]) < Len(stack[t])

\* Map m2 is map m1 with at most the entry for key k changed.
OnlyEntryChanged(m1, m2, k) ==
    /\ DOMAIN m2 = DOMAIN m1 \cup {k}
    /\ \A x \in DOMAIN m1 \ {k} : m2[x] = m1[x]

\* C26: frame.  A step of a Dispatch call, whatever its outcome, leaves the
\* type map, the resource map and the default slot unchanged; HandleType
\* changes only the type-map entry of its tag, HandleResource only the
\* resource-map entry of its URI, SetDefault only the default slot; no step
\* removes an entry or unsets the default.
C26_Frame ==
    [][/\ (\A t \in Threads : ~RegistrationStep(t)) =>
              /\ typeHandlers' = typeHandlers
              /\ resourceHandlers' = resourceHandlers
              /\ defaultHandler' = defaultHandler
       /\ \A t \in Threads :
             RegistrationStep(t) =>
               /\ Top(t).op = "HandleType" =>
                     /\ OnlyEntryChanged(typeHandlers, typeHandlers', Top(t).tag)
                     /\ resourceHandlers' = resourceHandlers
                     /\ defaultHandler' = defaultHandler
               /\ Top(t).op = "HandleResource" =>
                     /\ OnlyEntryChanged(resourceHandlers, resourceHandlers', Top(t).uri)
                     /\ typeHandlers' = typeHandlers
                     /\ defaultHandler' = defaultHandler
               /\ Top(t).op = "SetDefault" =>
                     /\ typeHandlers' = typeHandlers
                     /\ resourceHandlers' = resourceHandlers
       /\ DOMAIN typeHandlers \subseteq DOMAIN typeHandlers'
       /\ DOMAIN resourceHandlers \subseteq DOMAIN resourceHandlers'
       /\ defaultHandler # Nil => defaultHandler' # Nil
      ]_vars

\* C26 witness: two resource keys, a type key and the default are
\* registered, each by its own call; the entries registered first are
\* still there.
C26_Witness ==
    /\ Sequential
    /\ Cardinality(DOMAIN resourceHandlers) = 2
    /\ ActionTypeTool \in DOMAIN typeHandlers
    /\ defaultHandler # Nil
    /\ result[1].kind = "registered"

\* The Dispatch calls in progress on thread t.
Dispatches(t) == {f \in Frames(t) : f.kind = "Dispatch"}

\* C27: pass-through and single invocation.  A Dispatch call invokes at
\* most one handler, once: none before its lookup, and exactly the handler
\* it selected once it runs one.  The handler is called with the context
\* and the request (action, resource URI, session) of the Dispatch call,
\* unmodified, also when the context is already cancelled; the selection
\* does not depend on the session.
C27_PassThrough ==
    \A t \in Threads : \A f \in Dispatches(t) :
        /\ Len(f.calls) <= 1
        /\ f.pc = "handler" <=> Len(f.calls) = 1
        /\ f.calls # <<>> =>
              /\ f.calls[1].h = f.sel.h
              /\ f.calls[1].ctx = f.ctx
              /\ f.calls[1].req = f.req
        /\ \A x \in {Nil, "session-1"} :
              DispatchSelect(resourceHandlers, typeHandlers, defaultHandler, f.req)
                = DispatchSelect(resourceHandlers, typeHandlers, defaultHandler,
                                 [f.req EXCEPT !.Session = x])

\* C27 witness: a Dispatch called with a cancelled context and a request
\* that carries a session runs a handler, called with that context and
\* that session.
C27_Witness ==
    /\ InFrame(1, "Dispatch", "handler")
    /\ Top(1).ctx = "cancelled context"
    /\ Top(1).req.Session = "session-1"
    /\ Top(1).calls[1].ctx = "cancelled context"
    /\ Top(1).calls[1].req.Session = "session-1"

\* C28: nested dispatch does not deadlock.  A Dispatch entered from a
\* handler, on the thread that holds the outer Dispatch's read lock, is
\* never blocked behind a writer that itself waits for that read lock to be
\* released: from such a state neither call can return.
C28_NestedDispatchReturns ==
    \A t \in Threads :
        ~(/\ Depth(t) >= 2
          /\ RBlocked(t)
          /\ mu.readers[t] > 0
          /\ mu.writer \in Threads \ {t}
          /\ InFrame(mu.writer, "Register", "wwait"))

\* A thread in the write critical section is alone: no other thread is in
\* it, and no Dispatch call is between its lookup and its return.
MutualExclusion ==
    \A t \in Threads :
        InFrame(t, "Register", "write") =>
            /\ \A u \in Threads \ {t} : ~InFrame(u, "Register", "write")
            /\ \A u \in Threads : \A f \in Dispatches(u) : f.pc \notin {"lookup", "handler"}
            /\ ActiveReaders = 0

\* C29: Dispatch is atomic with respect to registrations.  The lookup of a
\* Dispatch call is one step under the read lock, in which no registry
\* changes and no registration is in its critical section; the handler it
\* invokes is the one of the last completed registration for the selected
\* key; and no two registrations, and no registration and lookup, are in
\* their critical sections at the same time.
C29_DispatchAtomic ==
    [][/\ MutualExclusion'
       /\ \A t \in Threads :
             LookupStep(t) =>
               /\ mu.readers[t] >= 1
               /\ \A u \in Threads : ~InFrame(u, "Register", "write")
               /\ typeHandlers' = typeHandlers
               /\ resourceHandlers' = resourceHandlers
               /\ defaultHandler' = defaultHandler
               /\ (Len(stack'[t]) = Len(stack[t])) =>
                     LET f == stack'[t][Len(stack'[t])] IN
                     /\ f.sel = DispatchSelect(resourceHandlers, typeHandlers,
                                               defaultHandler, f.req)
                     /\ f.sel.h = LastRegistered(f).h
      ]_vars

\* C29 witness: a registration is in its critical section while a Dispatch
\* call of another thread is blocked at its read lock.
C29_Witness ==
    \E t, u \in Threads :
        /\ t # u
        /\ InFrame(t, "Register", "write")
        /\ RBlocked(u)

====
